---- MODULE Spec2Model ----
(***************************************************************************)
(* Model of the SoFiA 2 source finder core (DataCube.c): the linker        *)
(* (DataCube_run_linker / DataCube_mark_neighbours) working on a 32-bit    *)
(* mask with its LinkerPar table, and the S+C finder (DataCube_run_scfind  *)
(* with DataCube_mask_32, DataCube_set_masked_32, DataCube_boxcar,         *)
(* DataCube_gaussian and DataCube_stat_std).                               *)
(*                                                                         *)
(* Spec        : one call of DataCube_run_linker on a 0/1 mask.            *)
(* SpecScfind  : one call of DataCube_run_scfind on a floating-point cube. *)
(***************************************************************************)
EXTENDS Integers, Sequences, FiniteSets, TLC

VARIABLES
    axis_size,   \* this->axis_size[0..3] of the mask cube
    data_type,   \* this->data_type of the mask cube (BITPIX)
    data,        \* mask payload: linear index -> value, zero pixels left out
    radius,      \* radius_x, radius_y, radius_z of the current linker call
    min_size,    \* min_size_x, min_size_y, min_size_z of the current call
    lpar,        \* LinkerPar table: row k+1 holds the record of index k
    label,       \* the int32_t label counter of DataCube_run_linker
    pc,          \* position of DataCube_run_linker
    scan,        \* pixels with linear index >= scan were visited by the loop
    stack,       \* call frames of DataCube_mark_neighbours, innermost last
    halo,        \* memory behind the payload touched so far: index -> value
    input,       \* history: the mask as it was handed to the linker
    prov,        \* history: mask and table at the end of the labelling pass
    visited,     \* history: neighbour iterations done by the last mark step
    cube,        \* the data cube handed to DataCube_run_scfind (this)
    par,         \* kernels_spat, kernels_spec, threshold, maskScaleXY
    maskCube,    \* the mask cube of DataCube_run_scfind, NULL before it exists
    smoothedCube, \* the smoothed working copy, NULL outside an iteration
    rms,         \* noise of the original cube
    rms_smooth,  \* noise of the smoothed working copy
    ij,          \* loop counters i (spatial kernel) and j (spectral kernel)
    spc,         \* position of DataCube_run_scfind
    clipped,     \* history: kernel pair and payload of every smoothed copy
                 \* that was thresholded
    this,        \* the DataCube whose header and file methods are called
    called,      \* history: the last header or file method called, its
                 \* arguments, its result and the cube before the call
    disk,        \* the FITS files: file name -> what the file holds
    streams,     \* the FILE objects that fopen returned and fclose has not
                 \* closed
    region,      \* the region handed to DataCube_load, << >> for NULL
    little_endian, \* is_little_endian() of the machine
    run,         \* the run of the pipeline: position of main, its settings
                 \* and the objects it holds
    flagger,     \* the Flagger object, NULL before Flagger_new
    seeds        \* the label counter of the labelling loop on a mask of any
                 \* size: its value and the labels it has handed out

lvars == <<axis_size, data_type, data, radius, min_size, lpar, label, pc,
           scan, stack, halo, input, prov, visited>>

svars == <<cube, par, maskCube, smoothedCube, rms, rms_smooth, ij, spc,
           clipped>>

fvars == <<this, called, disk, streams, region, little_endian>>

-----------------------------------------------------------------------------
(* Bounds of the model.                                                    *)

\* largest payload (number of pixels) of an ordinary mask cube
MaxPixels == 4
\* largest merging radius per axis
MaxRadius == 2
\* largest minimum-size requirement per axis
MaxMinSize == 2
\* number of addressable int32 cells that follow the payload in memory
HaloSize == 1

-----------------------------------------------------------------------------
(* Machine arithmetic.                                                     *)

\* size_t is unsigned and wraps. The model keeps the wrap-around but uses a
\* 30-bit word, the widest for which TLC can evaluate the sums below; every
\* size in the model is far below 2^17, so a difference wraps exactly when
\* it wraps in 64 bits.
SizeMod == 2^30

Signed(a) == IF a >= SizeMod \div 2 THEN a - SizeMod ELSE a

SizeAdd(a, b) == (a + b) % SizeMod
SizeSub(a, b) == (a - b) % SizeMod
\* (a * b) mod SizeMod, computed on the signed residues to stay in range
SizeMul(a, b) == (Signed(a) * Signed(b)) % SizeMod

\* conversion of an argument to uint16_t
Uint16(v) == v % (2^16)

Max(S) == CHOOSE m \in S : \A n \in S : n <= m
Min2(a, b) == IF a < b THEN a ELSE b
Max2(a, b) == IF a > b THEN a ELSE b

-----------------------------------------------------------------------------
(* The mask payload.                                                       *)

data_size == axis_size[0] * axis_size[1] * axis_size[2]

DataCube_get_index(x, y, z) ==
    SizeAdd(x, SizeMul(axis_size[0], SizeAdd(y, SizeMul(axis_size[1], z))))

Get(d, i) == IF i \in DOMAIN d THEN d[i] ELSE 0

Put(d, i, v) ==
    IF v = 0 THEN [j \in (DOMAIN d) \ {i} |-> d[j]]
    ELSE [j \in (DOMAIN d) \cup {i} |-> IF j = i THEN v ELSE d[j]]

\* coordinates of the pixel the scanning loops reach at linear index i
CoordX(i) == i % axis_size[0]
CoordY(i) == (i \div axis_size[0]) % axis_size[1]
CoordZ(i) == i \div (axis_size[0] * axis_size[1])

-----------------------------------------------------------------------------
(* LinkerPar.                                                              *)

LinkerPar_new == << >>

LinkerPar_push(lp, x, y, z) ==
    Append(lp, [label |-> 0, n_pix |-> 1,
                x_min |-> Uint16(x), x_max |-> Uint16(x),
                y_min |-> Uint16(y), y_max |-> Uint16(y),
                z_min |-> Uint16(z), z_max |-> Uint16(z)])

LinkerPar_update(lp, index, x, y, z) ==
    [lp EXCEPT ![index + 1] =
        [@ EXCEPT !.n_pix = @ + 1,
                  !.x_min = Min2(@, Uint16(x)), !.x_max = Max2(@, Uint16(x)),
                  !.y_min = Min2(@, Uint16(y)), !.y_max = Max2(@, Uint16(y)),
                  !.z_min = Min2(@, Uint16(z)), !.z_max = Max2(@, Uint16(z))]]

LinkerPar_get_size(lp, index, axis) ==
    CASE axis = 0 -> lp[index + 1].x_max - lp[index + 1].x_min + 1
      [] axis = 1 -> lp[index + 1].y_max - lp[index + 1].y_min + 1
      [] axis = 2 -> lp[index + 1].z_max - lp[index + 1].z_min + 1

LinkerPar_set_label(lp, index, l) == [lp EXCEPT ![index + 1].label = l]

LinkerPar_get_label(lp, index) == lp[index + 1].label

\* rows with a final label, in ascending order of that label
LinkerPar_reduce(lp) ==
    LET keep == {i \in DOMAIN lp : lp[i].label # 0}
        rank(i) == Cardinality({j \in keep :
                       \/ lp[j].label < lp[i].label
                       \/ lp[j].label = lp[i].label /\ j <= i})
    IN  [k \in 1..Cardinality(keep) |-> lp[CHOOSE i \in keep : rank(i) = k]]

-----------------------------------------------------------------------------
(* DataCube_mark_neighbours: one call frame and its loop.                  *)

\* the clipped box of a call at (x, y, z), loop variables at the first pixel
MarkFrame(x, y, z) ==
    LET x1 == IF x > radius.x THEN SizeSub(x, radius.x) ELSE 0
        y1 == IF y > radius.y THEN SizeSub(y, radius.y) ELSE 0
        z1 == IF z > radius.z THEN SizeSub(z, radius.z) ELSE 0
        x2 == IF x < SizeSub(SizeSub(axis_size[0], 1), radius.x)
              THEN SizeAdd(x, radius.x) ELSE SizeSub(axis_size[0], 1)
        y2 == IF y < SizeSub(SizeSub(axis_size[1], 1), radius.y)
              THEN SizeAdd(y, radius.y) ELSE SizeSub(axis_size[1], 1)
        z2 == IF z < SizeSub(SizeSub(axis_size[2], 1), radius.z)
              THEN SizeAdd(z, radius.z) ELSE SizeSub(axis_size[2], 1)
    IN  [x |-> x, y |-> y, z |-> z,
         x1 |-> x1, x2 |-> x2, y1 |-> y1, y2 |-> y2, z1 |-> z1, z2 |-> z2,
         xx |-> x1, yy |-> y1, zz |-> z1]

\* faulty variant: the comparison includes the boundary
SkipNeighbour_inclusive(x, y, xx, yy) ==
    SizeAdd(SizeMul(SizeSub(xx, x), SizeSub(xx, x)),
            SizeMul(SizeSub(yy, y), SizeSub(yy, y)))
        <= SizeMul(radius.x, radius.y)

\* the test that skips a neighbour (xx, yy) of the pixel (x, y)
SkipNeighbour(x, y, xx, yy) ==
    SizeAdd(SizeMul(SizeSub(xx, x), SizeSub(xx, x)),
            SizeMul(SizeSub(yy, y), SizeSub(yy, y)))
        < SizeMul(radius.x, radius.y)

\* faulty variant: every pixel not above 1 joins
MarkTest_background(v) == v <= 1

\* the test that lets a neighbour with mask value v join the source
MarkTest(v) == v = 1

PixelIndex(p) == DataCube_get_index(p.xx, p.yy, p.zz)

\* the loop variables of frame f
Position(f) == [xx |-> f.xx, yy |-> f.yy, zz |-> f.zz]

\* the loops of frame f have nothing left to do at the loop variables p
LoopsDone(f, p) == p.zz > f.z2 \/ f.y1 > f.y2 \/ f.x1 > f.x2

\* loop variables after the iteration p (++xx, then ++yy, then ++zz)
NextPosition(f, p) ==
    IF p.xx < f.x2 THEN [p EXCEPT !.xx = p.xx + 1]
    ELSE IF p.yy < f.y2 THEN [p EXCEPT !.xx = f.x1, !.yy = p.yy + 1]
    ELSE [xx |-> f.x1, yy |-> f.y1, zz |-> p.zz + 1]

After(f, p) ==
    LET q == NextPosition(f, p)
    IN  [f EXCEPT !.xx = q.xx, !.yy = q.yy, !.zz = q.zz]

\* an iteration that does more than fall through: it is not skipped and it
\* either reads behind the payload or finds a candidate pixel
IsEvent(f, p) ==
    /\ ~SkipNeighbour(f.x, f.y, p.xx, p.yy)
    /\ \/ PixelIndex(p) >= data_size
       \/ MarkTest(Get(data, PixelIndex(p)))

\* the loops of frame f run on from the loop variables p: the first iteration
\* that is an event, or the loop variables at which the loops end
RECURSIVE RunLoops(_, _)
RunLoops(f, p) ==
    IF LoopsDone(f, p) \/ IsEvent(f, p) THEN p
    ELSE RunLoops(f, NextPosition(f, p))

HasEvent(f) == ~LoopsDone(f, RunLoops(f, Position(f)))

FirstEvent(f) == RunLoops(f, Position(f))

\* the record of the iterations from the loop variables p up to the
\* iteration e (e included), or up to the end of the loops
RECURSIVE Iterations(_, _, _)
Iterations(f, p, e) ==
    IF LoopsDone(f, p) THEN {}
    ELSE {[x |-> f.x, y |-> f.y, z |-> f.z,
           xx |-> p.xx, yy |-> p.yy, zz |-> p.zz,
           skipped |-> SkipNeighbour(f.x, f.y, p.xx, p.yy)]}
         \cup (IF p = e THEN {} ELSE Iterations(f, NextPosition(f, p), e))

Top == stack[Len(stack)]

Replace(st, f) == [st EXCEPT ![Len(st)] = f]

-----------------------------------------------------------------------------
(* Objects and states at rest.                                             *)

\* the NULL pointer in place of a DataCube
NULL == [data_type |-> 0, axis_size |-> << >>, data |-> << >>]

\* no call of DataCube_run_scfind is in progress
ScfindIdle ==
    /\ cube = NULL
    /\ par = << >>
    /\ maskCube = NULL
    /\ smoothedCube = NULL
    /\ rms = 0
    /\ rms_smooth = 0
    /\ ij = <<0, 0>>
    /\ spc = "idle"
    /\ clipped = {}

\* no call of DataCube_run_linker is in progress
LinkerIdle ==
    /\ axis_size = [i \in 0..3 |-> 1]
    /\ data_type = 32
    /\ data = << >>
    /\ radius = [x |-> 0, y |-> 0, z |-> 0]
    /\ min_size = [x |-> 0, y |-> 0, z |-> 0]
    /\ lpar = << >>
    /\ label = 0
    /\ pc = "idle"
    /\ scan = 0
    /\ stack = << >>
    /\ halo = << >>
    /\ input = << >>
    /\ prov = [data |-> << >>, lpar |-> << >>]
    /\ visited = {}

\* no file has been opened
FilesIdle ==
    /\ disk = << >>
    /\ streams = {}
    /\ region = << >>
    /\ little_endian = TRUE

\* no header or file method has been called
FitsIdle ==
    /\ this = NULL
    /\ called = << >>
    /\ FilesIdle

-----------------------------------------------------------------------------
(* Initial states: a mask of zeros and ones.                               *)

\* the cubes of up to MaxPixels pixels, and a plane of 3 x 2 pixels, wide
\* enough for merging radii 2 and 1 that are smaller than its axes; the
\* masks of the plane have up to 3 candidate pixels
Shapes ==
    {s \in [0..2 -> 1..MaxPixels] : s[0] * s[1] * s[2] <= MaxPixels}
        \cup {[i \in 0..2 |-> <<3, 2, 1>>[i + 1]]}

\* a cube whose first axis does not fit the 16-bit coordinates of LinkerPar
WideAxis == 2^16 + 1

Init ==
    /\ \/ \E s \in Shapes :
            /\ axis_size = [i \in 0..3 |-> IF i = 3 THEN 1 ELSE s[i]]
            /\ \E c \in SUBSET (0..(s[0] * s[1] * s[2] - 1)) :
                    /\ s[0] * s[1] * s[2] > MaxPixels => Cardinality(c) <= 3
                    /\ data = [i \in c |-> 1]
       \/ /\ axis_size = [i \in 0..3 |-> IF i = 0 THEN WideAxis ELSE 1]
          /\ \E c \in SUBSET {WideAxis - 1, WideAxis - 2} :
                    data = [i \in c |-> 1]
    /\ data_type \in {32, -32}
    /\ radius = [x |-> 0, y |-> 0, z |-> 0]
    /\ min_size = [x |-> 0, y |-> 0, z |-> 0]
    /\ lpar = << >>
    /\ label = 0
    /\ pc = "idle"
    /\ scan = 0
    /\ stack = << >>
    /\ halo = << >>
    /\ input = data
    /\ prov = [data |-> << >>, lpar |-> << >>]
    /\ visited = {}
    /\ ScfindIdle
    /\ FitsIdle
    /\ run = NULL
    /\ flagger = NULL
    /\ seeds = NULL

-----------------------------------------------------------------------------
(* DataCube_run_linker.                                                    *)

\* entry: the sanity checks, the two dummy rows, label = 2
RunLinker ==
    /\ pc = "idle"
    /\ \E rx \in 0..MaxRadius, ry \in 0..MaxRadius, rz \in 0..MaxRadius :
          radius' = [x |-> rx, y |-> ry, z |-> rz]
    /\ IF data_type = 32
       THEN /\ lpar' = LinkerPar_push(LinkerPar_push(LinkerPar_new, 0, 0, 0), 0, 0, 0)
            /\ label' = 2
            /\ scan' = data_size
            /\ pc' = "link"
       ELSE /\ pc' = "failed"
            /\ UNCHANGED <<lpar, label, scan>>
    /\ UNCHANGED <<axis_size, data_type, data, min_size, stack, halo, input,
                   prov, visited>>
    /\ UNCHANGED <<svars, fvars, run, flagger, seeds>>

Candidates == {i \in DOMAIN data : i < scan /\ data[i] = 1}

\* labelling loop: the next pixel equal to 1 starts a new source
LinkScan ==
    /\ pc = "link"
    /\ Candidates # {}
    /\ LET i == Max(Candidates)
           x == CoordX(i)
           y == CoordY(i)
           z == CoordZ(i)
       IN  IF label > 0
           THEN /\ data' = Put(data, DataCube_get_index(x, y, z), label)
                /\ lpar' = LinkerPar_push(lpar, x, y, z)
                /\ stack' = <<MarkFrame(x, y, z)>>
                /\ scan' = i
                /\ pc' = "mark"
           ELSE /\ pc' = "failed"
                /\ UNCHANGED <<data, lpar, stack, scan>>
    /\ visited' = {}
    /\ UNCHANGED <<axis_size, data_type, radius, min_size, label, halo, input,
                   prov>>
    /\ UNCHANGED <<svars, fvars, run, flagger, seeds>>

\* labelling loop finished: label = 1, the filtering pass begins
LinkDone ==
    /\ pc = "link"
    /\ Candidates = {}
    /\ \E mx \in 1..MaxMinSize, my \in 1..MaxMinSize, mz \in 1..MaxMinSize :
          min_size' = [x |-> mx, y |-> my, z |-> mz]
    /\ label' = 1
    /\ scan' = data_size
    /\ prov' = [data |-> data, lpar |-> lpar]
    /\ pc' = "filter"
    /\ visited' = {}
    /\ UNCHANGED <<axis_size, data_type, data, radius, lpar, stack, halo, input>>
    /\ UNCHANGED <<svars, fvars, run, flagger, seeds>>

\* mark_neighbours: the loop runs up to a neighbour equal to 1, which gets the
\* label, is recorded and becomes the centre of a nested call
MarkLink ==
    /\ pc = "mark"
    /\ HasEvent(Top)
    /\ LET f == Top
           e == FirstEvent(f)
       IN  /\ PixelIndex(e) < data_size
           /\ data' = Put(data, PixelIndex(e), label)
           /\ lpar' = LinkerPar_update(lpar, label, e.xx, e.yy, e.zz)
           /\ stack' = Append(Replace(stack, After(f, e)), MarkFrame(e.xx, e.yy, e.zz))
           /\ visited' = Iterations(f, Position(f), e)
    /\ UNCHANGED <<axis_size, data_type, radius, min_size, label, pc, scan,
                   halo, input, prov>>
    /\ UNCHANGED <<svars, fvars, run, flagger, seeds>>

\* mark_neighbours: the loop runs up to a neighbour whose index lies behind
\* the payload; reading it is undefined: here the read faults
MarkFault ==
    /\ pc = "mark"
    /\ HasEvent(Top)
    /\ LET f == Top
           e == FirstEvent(f)
       IN  /\ PixelIndex(e) >= data_size
           /\ PixelIndex(e) \notin DOMAIN halo
           /\ visited' = Iterations(f, Position(f), e)
    /\ pc' = "crashed"
    /\ UNCHANGED <<axis_size, data_type, data, radius, min_size, lpar, label,
                   scan, stack, halo, input, prov>>
    /\ UNCHANGED <<svars, fvars, run, flagger, seeds>>

\* ... or the read returns what the memory behind the payload holds: some
\* value (1, or 0 for anything else) on the first access, the value left
\* there afterwards; a 1 is overwritten with the label like a mask pixel
MarkOutside ==
    /\ pc = "mark"
    /\ HasEvent(Top)
    /\ LET f == Top
           e == FirstEvent(f)
           i == PixelIndex(e)
       IN  /\ i >= data_size
           /\ \E v \in {0, 1} :
                /\ IF i \in DOMAIN halo THEN v = halo[i]
                   ELSE i < data_size + HaloSize
                /\ IF MarkTest(v)
                   THEN /\ halo' = Put(halo, i, label)
                        /\ lpar' = LinkerPar_update(lpar, label, e.xx, e.yy, e.zz)
                        /\ stack' = Append(Replace(stack, After(f, e)),
                                           MarkFrame(e.xx, e.yy, e.zz))
                   ELSE /\ halo' = [j \in (DOMAIN halo) \cup {i} |->
                                       IF j = i THEN v ELSE halo[j]]
                        /\ stack' = Replace(stack, After(f, e))
                        /\ UNCHANGED lpar
           /\ visited' = Iterations(f, Position(f), e)
    /\ UNCHANGED <<axis_size, data_type, data, radius, min_size, label, pc,
                   scan, input, prov>>
    /\ UNCHANGED <<svars, fvars, run, flagger, seeds>>

\* mark_neighbours: the loop runs to its end and the call returns; the return
\* of the outermost call is followed by label += 1 in run_linker
MarkReturn ==
    /\ pc = "mark"
    /\ ~HasEvent(Top)
    /\ visited' = Iterations(Top, Position(Top), FirstEvent(Top))
    /\ stack' = SubSeq(stack, 1, Len(stack) - 1)
    /\ IF Len(stack) = 1
       THEN /\ label' = IF label + 1 < 2 THEN 2 ELSE label + 1
            /\ pc' = "link"
       ELSE UNCHANGED <<label, pc>>
    /\ UNCHANGED <<axis_size, data_type, data, radius, min_size, lpar, scan,
                   halo, input, prov>>
    /\ UNCHANGED <<svars, fvars, run, flagger, seeds>>

Labelled == {i \in DOMAIN data : i < scan /\ data[i] > 0}

\* faulty variant: only the first axis is tested
TooSmall_firstAxis(lp, l) == LinkerPar_get_size(lp, l, 0) < min_size.x

\* the size test of the filtering pass for the source with index l
TooSmall(lp, l) ==
    \/ LinkerPar_get_size(lp, l, 0) < min_size.x
    \/ LinkerPar_get_size(lp, l, 1) < min_size.y
    \/ LinkerPar_get_size(lp, l, 2) < min_size.z

\* the table after the relabelling branch was taken for the source l
Relabel(lp, l) ==
    IF LinkerPar_get_label(lp, l) = 0 THEN LinkerPar_set_label(lp, l, label)
    ELSE lp

\* faulty variant: the counter advances with every relabelled pixel
NextLabel_everyPixel(lp, l) == label + 1

\* the label counter after the relabelling branch was taken for the source l
NextLabel(lp, l) ==
    IF LinkerPar_get_label(lp, l) = 0 THEN label + 1 ELSE label

\* filtering loop: the next pixel above 0 is removed or relabelled
FilterScan ==
    /\ pc = "filter"
    /\ Labelled # {}
    /\ LET i == Max(Labelled)
           l == data[i]
       IN  /\ IF TooSmall(lpar, l)
              THEN /\ data' = Put(data, i, 0)
                   /\ UNCHANGED <<lpar, label>>
              ELSE /\ lpar' = Relabel(lpar, l)
                   /\ label' = NextLabel(lpar, l)
                   /\ data' = Put(data, i, LinkerPar_get_label(lpar', l))
           /\ scan' = i
    /\ UNCHANGED <<axis_size, data_type, radius, min_size, pc, stack, halo,
                   input, prov, visited>>
    /\ UNCHANGED <<svars, fvars, run, flagger, seeds>>

\* filtering loop finished: LinkerPar_reduce, return
FilterDone ==
    /\ pc = "filter"
    /\ Labelled = {}
    /\ lpar' = LinkerPar_reduce(lpar)
    /\ scan' = 0
    /\ pc' = "done"
    /\ UNCHANGED <<axis_size, data_type, data, radius, min_size, label, stack,
                   halo, input, prov, visited>>
    /\ UNCHANGED <<svars, fvars, run, flagger, seeds>>

Next ==
    \/ RunLinker
    \/ LinkScan
    \/ LinkDone
    \/ MarkLink
    \/ MarkFault
    \/ MarkOutside
    \/ MarkReturn
    \/ FilterScan
    \/ FilterDone

vars == <<lvars, svars, fvars, run, flagger, seeds>>

Spec == Init /\ [][Next]_vars

-----------------------------------------------------------------------------
(* Floating-point numbers.                                                 *)

\* A float or double is modelled as a fixed-point number: the integer n
\* stands for the value n / Unit. An operation truncates its exact result
\* to such a number where the machine rounds it to a float.
Unit == 1000

\* the not-a-number value
NaN == -(2^30)

isnan(a) == a = NaN

Abs(a) == IF a < 0 THEN -a ELSE a

Neg(a) == IF isnan(a) THEN NaN ELSE -a

\* a / n for a count n > 0
Quot(a, n) == IF a < 0 THEN -((-a) \div n) ELSE a \div n

\* the product a * b
Times(a, b) == IF isnan(a) \/ isnan(b) THEN NaN ELSE Quot(a * b, Unit)

\* a > b; false when either side is not a number
Greater(a, b) == ~isnan(a) /\ ~isnan(b) /\ a > b

\* integer square root
RECURSIVE Isqrt(_)
Isqrt(n) ==
    IF n < 2 THEN n
    ELSE LET s == 2 * Isqrt(n \div 4)
         IN  IF (s + 1) * (s + 1) <= n THEN s + 1 ELSE s

copysign(a, b) ==
    IF isnan(a) THEN NaN ELSE IF b < 0 THEN -Abs(a) ELSE Abs(a)

RECURSIVE SumOver(_, _)
SumOver(f, S) ==
    IF S = {} THEN 0
    ELSE LET i == CHOOSE k \in S : TRUE IN f[i] + SumOver(f, S \ {i})

-----------------------------------------------------------------------------
(* Statistics and filters (statistics module).                             *)

\* standard deviation about value over every cadence-th element, using the
\* elements below value (range < 0), above it (range > 0) or all of them
std_dev_val(d, size, value, cadence, range) ==
    LET S == {i \in 0..(size - 1) :
                /\ i % cadence = 0
                /\ ~isnan(d[i])
                /\ \/ range = 0
                   \/ range < 0 /\ d[i] <= value
                   \/ range > 0 /\ d[i] >= value}
        sq == [i \in S |-> (d[i] - value) * (d[i] - value)]
    IN  IF S = {} THEN NaN ELSE Isqrt(SumOver(sq, S) \div Cardinality(S))

\* symmetric moving average of width 2 * filter_radius + 1, zero beyond
\* both ends
filter_boxcar_1d(v, size, filter_radius) ==
    [i \in 0..(size - 1) |->
        LET W == {k \in (i - filter_radius)..(i + filter_radius) :
                    0 <= k /\ k < size}
        IN  Quot(SumOver(v, W), 2 * filter_radius + 1)]

RECURSIVE Repeat(_, _, _, _)
Repeat(v, size, filter_radius, n) ==
    IF n = 0 THEN v
    ELSE Repeat(filter_boxcar_1d(v, size, filter_radius), size,
                filter_radius, n - 1)

\* n_iter boxcar passes along every row, then along every column
filter_gauss_2d(plane, size_x, size_y, n_iter, filter_radius) ==
    LET rows == [y \in 0..(size_y - 1) |->
                    Repeat([x \in 0..(size_x - 1) |-> plane[x + size_x * y]],
                           size_x, filter_radius, n_iter)]
        cols == [x \in 0..(size_x - 1) |->
                    Repeat([y \in 0..(size_y - 1) |-> rows[y][x]],
                           size_y, filter_radius, n_iter)]
    IN  [i \in 0..(size_x * size_y - 1) |-> cols[i % size_x][i \div size_x]]

\* boxcar radius r and number of passes n with n((2r+1)^2 - 1)/12 near
\* sigma^2; the smallest filter has radius 1
optimal_filter_size(sigma) ==
    [filter_radius |->
        Max2(1, Isqrt(Quot(sigma * sigma, Unit) * Unit + (Unit * Unit) \div 4)
                    \div Unit),
     n_iter |-> 3]

-----------------------------------------------------------------------------
(* DataCube methods used by the S+C finder.                                *)

\* this->data_size of a cube object
DataSize(c) == c.axis_size[0] * c.axis_size[1] * c.axis_size[2]

\* DataCube_get_index for a cube object
IndexOf(c, x, y, z) == x + c.axis_size[0] * (y + c.axis_size[1] * z)

DataCube_blank(nx, ny, nz, type) ==
    [data_type |-> type,
     axis_size |-> [i \in 0..3 |->
                      CASE i = 0 -> nx [] i = 1 -> ny [] i = 2 -> nz
                        [] OTHER -> 1],
     data      |-> [i \in 0..(nx * ny * nz - 1) |-> 0]]

DataCube_copy(source) == source

DataCube_stat_std(c, value, cadence, range) ==
    std_dev_val(c.data, DataSize(c), value,
                IF cadence # 0 THEN cadence ELSE 1, range)

\* the sanity checks shared by DataCube_mask_32 and DataCube_set_masked_32
MaskArgumentsValid(c, m) ==
    /\ c # NULL /\ m # NULL
    /\ c.data_type = -32 \/ c.data_type = -64
    /\ m.data_type = 32
    /\ \A a \in 0..2 : c.axis_size[a] = m.axis_size[a]

\* faulty variant: the comparison includes the thresholds themselves
Crossing_inclusive(v, thresh_p, thresh_n) ==
    ~isnan(v) /\ ~isnan(thresh_p) /\ (v >= thresh_p \/ v <= thresh_n)

\* the comparison of one pixel with the two thresholds
Crossing(v, thresh_p, thresh_n) ==
    Greater(v, thresh_p) \/ Greater(thresh_n, v)

\* the mask after DataCube_mask(c, m, threshold), for a mask of any of the
\* integer types: the pixel is set to 1 in the type of the mask
DataCube_mask(c, m, threshold) ==
    [m EXCEPT !.data = [p \in DOMAIN m.data |->
        IF /\ Crossing(c.data[p], threshold, Neg(threshold))
           /\ m.data_type \in {8, 16, 32, 64}
        THEN 1 ELSE m.data[p]]]

\* faulty variant: a pixel that crosses the threshold is toggled
DataCube_mask_32_toggle(c, m, threshold) ==
    [m EXCEPT !.data = [p \in DOMAIN m.data |->
        IF Crossing(c.data[p], threshold, Neg(threshold))
        THEN 1 - m.data[p] ELSE m.data[p]]]

\* faulty variant: the result of the comparison is stored in the mask
DataCube_mask_32_overwrite(c, m, threshold) ==
    [m EXCEPT !.data = [p \in DOMAIN m.data |->
        IF Crossing(c.data[p], threshold, Neg(threshold)) THEN 1 ELSE 0]]

\* the mask after DataCube_mask_32(c, m, threshold)
DataCube_mask_32(c, m, threshold) ==
    [m EXCEPT !.data = [p \in DOMAIN m.data |->
        IF Crossing(c.data[p], threshold, Neg(threshold)) THEN 1 ELSE m.data[p]]]

\* the cube after DataCube_set_masked_32(c, m, value)
DataCube_set_masked_32(c, m, value) ==
    [c EXCEPT !.data = [p \in DOMAIN c.data |->
        IF m.data[p] # 0 THEN copysign(value, c.data[p]) ELSE c.data[p]]]

\* the cube after DataCube_boxcar(c, r): every spectrum is filtered
DataCube_boxcar(c, r) ==
    LET rr == IF r < 1 THEN 1 ELSE r
        nz == c.axis_size[2]
        spectrum(x, y) == [z \in 0..(nz - 1) |-> c.data[IndexOf(c, x, y, z)]]
        filtered == [x \in 0..(c.axis_size[0] - 1) |->
                       [y \in 0..(c.axis_size[1] - 1) |->
                           filter_boxcar_1d(spectrum(x, y), nz, rr)]]
    IN  [c EXCEPT !.data = [p \in DOMAIN c.data |->
            filtered[p % c.axis_size[0]]
                    [(p \div c.axis_size[0]) % c.axis_size[1]]
                    [p \div (c.axis_size[0] * c.axis_size[1])]]]

\* the cube after DataCube_gaussian(c, sigma): every plane is filtered
DataCube_gaussian(c, sigma) ==
    LET f == optimal_filter_size(sigma)
        size_1 == c.axis_size[0] * c.axis_size[1]
        plane(z) == [i \in 0..(size_1 - 1) |-> c.data[i + size_1 * z]]
        filtered == [z \in 0..(c.axis_size[2] - 1) |->
                       filter_gauss_2d(plane(z), c.axis_size[0],
                                       c.axis_size[1], f.n_iter,
                                       f.filter_radius)]
    IN  [c EXCEPT !.data = [p \in DOMAIN c.data |->
            filtered[p \div size_1][p % size_1]]]

-----------------------------------------------------------------------------
(* DataCube_run_scfind.                                                    *)

\* largest payload (number of pixels) of a data cube
ScPixels == 3
\* largest absolute flux of a pixel, in whole units
MaxFlux == 1

ScShapes ==
    {s \in [0..2 -> 1..ScPixels] : s[0] * s[1] * s[2] <= ScPixels}

Fluxes == {f * Unit : f \in (-MaxFlux)..MaxFlux}

\* arguments of the call: lists of spatial kernels (FWHM) and of spectral
\* kernels (boxcar widths), threshold and replacement factor
KernelLists ==
    {[spat |-> << >>, spec |-> <<0>>],
     [spat |-> <<0>>, spec |-> <<0>>],
     [spat |-> <<0>>, spec |-> <<1>>],
     [spat |-> <<0, 3 * Unit>>, spec |-> <<0, 3>>]}
Thresholds == {-Unit, 0, Unit \div 2, Unit}
Replacements == {0, Unit}

InitScfind ==
    /\ LinkerIdle
    /\ FitsIdle
    /\ run = NULL
    /\ flagger = NULL
    /\ seeds = NULL
    /\ \E s \in ScShapes, t \in {-32, 32} :
         \E d \in [0..(s[0] * s[1] * s[2] - 1) -> Fluxes] :
            cube = [data_type |-> t,
                    axis_size |-> [i \in 0..3 |-> IF i = 3 THEN 1 ELSE s[i]],
                    data      |-> d]
    /\ par = << >>
    /\ maskCube = NULL
    /\ smoothedCube = NULL
    /\ rms = 0
    /\ rms_smooth = 0
    /\ ij = <<0, 0>>
    /\ spc = "idle"
    /\ clipped = {}

FWHM_CONST == 2354
MAX_PIX_CONST == 1000000

\* (size_t)pow(data_size / MAX_PIX_CONST, 1.0 / 3.0), at least 1
SampleRms(size) ==
    LET q == size \div MAX_PIX_CONST
        r == CHOOSE k \in 0..q : k * k * k <= q /\ (k + 1) * (k + 1) * (k + 1) > q
    IN  IF r < 1 THEN 1 ELSE r

Array_get(a, i) == a[i + 1]

\* entry: the sanity checks, the blank mask, the noise of the original cube
RunScfind ==
    /\ spc = "idle"
    /\ \E k \in KernelLists, t \in Thresholds, m \in Replacements :
          IF /\ cube # NULL
             /\ cube.data_type < 0
             /\ Len(k.spat) # 0 /\ Len(k.spec) # 0
             /\ t >= 0
          THEN /\ par' = [kernels_spat |-> k.spat, kernels_spec |-> k.spec,
                          threshold |-> t, maskScaleXY |-> m]
               /\ maskCube' = DataCube_blank(cube.axis_size[0],
                                  cube.axis_size[1], cube.axis_size[2], 32)
               /\ rms' = DataCube_stat_std(cube, 0,
                                           SampleRms(DataSize(cube)), -1)
               /\ spc' = "mask"
          ELSE /\ spc' = "failed"
               /\ UNCHANGED <<par, maskCube, rms>>
    /\ UNCHANGED <<cube, smoothedCube, rms_smooth, ij, clipped>>
    /\ UNCHANGED <<lvars, fvars, run, flagger, seeds>>

\* DataCube_mask_32 on the original cube
MaskOriginal ==
    /\ spc = "mask"
    /\ LET threshold == Times(par.threshold, rms)
       IN  IF MaskArgumentsValid(cube, maskCube) /\ Greater(threshold, 0)
           THEN /\ maskCube' = DataCube_mask_32(cube, maskCube, threshold)
                /\ ij' = <<0, 0>>
                /\ spc' = "loop"
           ELSE /\ spc' = "failed"
                /\ UNCHANGED <<maskCube, ij>>
    /\ UNCHANGED <<cube, par, smoothedCube, rms, rms_smooth, clipped>>
    /\ UNCHANGED <<lvars, fvars, run, flagger, seeds>>

KernelSpat == Array_get(par.kernels_spat, ij[1])
KernelSpec == Array_get(par.kernels_spec, ij[2])

\* the loop counters after the end of the inner loop's body
Advance ==
    IF ij[2] + 1 < Len(par.kernels_spec)
    THEN <<ij[1], ij[2] + 1>>
    ELSE <<ij[1] + 1, 0>>

\* a kernel pair that requests no smoothing
SmoothSkip ==
    /\ spc = "loop"
    /\ ij[1] < Len(par.kernels_spat)
    /\ ~(KernelSpat # 0 \/ KernelSpec # 0)
    /\ ij' = Advance
    /\ UNCHANGED <<cube, par, maskCube, smoothedCube, rms, rms_smooth, spc,
                   clipped>>
    /\ UNCHANGED <<lvars, fvars, run, flagger, seeds>>

\* copy, replace the detected pixels, smooth, measure the noise
Smooth ==
    /\ spc = "loop"
    /\ ij[1] < Len(par.kernels_spat)
    /\ KernelSpat # 0 \/ KernelSpec # 0
    /\ LET copy == DataCube_copy(cube)
       IN  IF MaskArgumentsValid(copy, maskCube)
           THEN LET replaced == DataCube_set_masked_32(copy, maskCube,
                                    Times(par.maskScaleXY, rms))
                    spat == IF KernelSpat # 0
                            THEN DataCube_gaussian(replaced,
                                     (KernelSpat * Unit) \div FWHM_CONST)
                            ELSE replaced
                    spec == IF KernelSpec # 0
                            THEN DataCube_boxcar(spat, KernelSpec \div 2)
                            ELSE spat
                IN  /\ smoothedCube' = spec
                    /\ rms_smooth' = DataCube_stat_std(spec, 0,
                                         SampleRms(DataSize(cube)), -1)
                    /\ spc' = "clip"
           ELSE /\ smoothedCube' = copy
                /\ spc' = "failed"
                /\ UNCHANGED rms_smooth
    /\ UNCHANGED <<cube, par, maskCube, rms, ij, clipped>>
    /\ UNCHANGED <<lvars, fvars, run, flagger, seeds>>

\* DataCube_mask_32 on the smoothed copy, which is then deleted
Clip ==
    /\ spc = "clip"
    /\ LET threshold == Times(par.threshold, rms_smooth)
       IN  IF MaskArgumentsValid(smoothedCube, maskCube)
              /\ Greater(threshold, 0)
           THEN /\ maskCube' = DataCube_mask_32(smoothedCube, maskCube,
                                                threshold)
                /\ clipped' = clipped \cup
                      {[kernel |-> <<KernelSpat, KernelSpec>>,
                        data |-> smoothedCube.data]}
                /\ smoothedCube' = NULL
                /\ ij' = Advance
                /\ spc' = "loop"
           ELSE /\ spc' = "failed"
                /\ UNCHANGED <<maskCube, clipped, smoothedCube, ij>>
    /\ UNCHANGED <<cube, par, rms, rms_smooth>>
    /\ UNCHANGED <<lvars, fvars, run, flagger, seeds>>

\* the loops are over: the mask is returned
ReturnMask ==
    /\ spc = "loop"
    /\ ij[1] >= Len(par.kernels_spat)
    /\ spc' = "done"
    /\ UNCHANGED <<cube, par, maskCube, smoothedCube, rms, rms_smooth, ij,
                   clipped>>
    /\ UNCHANGED <<lvars, fvars, run, flagger, seeds>>

NextScfind ==
    \/ RunScfind
    \/ MaskOriginal
    \/ SmoothSkip
    \/ Smooth
    \/ Clip
    \/ ReturnMask

SpecScfind == InitScfind /\ [][NextScfind]_vars

-----------------------------------------------------------------------------
(* The FITS header of a DataCube: lines of 80 characters in blocks of 36   *)
(* lines.  A character is a string of length one, a character string a     *)
(* sequence of characters.                                                 *)

FITS_HEADER_BLOCK_SIZE == 2880
FITS_HEADER_LINE_SIZE == 80
FITS_HEADER_LINES == 36
FITS_HEADER_KEYWORD_SIZE == 8
FITS_HEADER_VALUE_SIZE == 70
FITS_HEADER_FIXED_WIDTH == 20

\* n spaces
Spaces(n) == [i \in 1..n |-> " "]

\* the characters '0' .. '9'
Digit == <<"0", "1", "2", "3", "4", "5", "6", "7", "8", "9">>
DigitChar(d) == Digit[d + 1]
DigitValue(ch) == CHOOSE d \in 0..9 : Digit[d + 1] = ch
isdigit(ch) == \E d \in 0..9 : Digit[d + 1] = ch

\* One header line.  key: bytes 0..7; eq: byte 8; value: the
\* FITS_HEADER_VALUE_SIZE bytes from byte 10 (FITS_HEADER_KEY_SIZE) on, kept
\* without the spaces that fill the field up to its end.
BlankLine == [key |-> Spaces(FITS_HEADER_KEYWORD_SIZE), eq |-> " ",
              value |-> << >>]

\* the byte at offset i <= 8 of a header line
ByteAt(l, i) == IF i < FITS_HEADER_KEYWORD_SIZE THEN l.key[i + 1] ELSE l.eq

\* memcpy(ptr, text, strlen(text)) at the start of a header line
Overwrite(l, text) ==
    [l EXCEPT !.key = text \o SubSeq(@, Len(text) + 1,
                                     FITS_HEADER_KEYWORD_SIZE)]

\* strncmp(ptr, key, strlen(key)) == 0
strncmp(l, key) == \A i \in 1..Len(key) : ByteAt(l, i - 1) = key[i]

\* the first line number of a set of line numbers, 0 for the empty set
FirstLine(S) == IF S = {} THEN 0 ELSE CHOOSE n \in S : \A m \in S : n <= m

\* keywords as character strings: those DataCube.c writes and reads itself,
\* and keywords of the calling code: a new one (BUNIT), one of the full eight
\* characters, and two of two characters
KEY ==
    [END      |-> <<"E", "N", "D">>,
     SIMPLE   |-> <<"S", "I", "M", "P", "L", "E">>,
     BITPIX   |-> <<"B", "I", "T", "P", "I", "X">>,
     NAXIS    |-> <<"N", "A", "X", "I", "S">>,
     CRPIX    |-> <<"C", "R", "P", "I", "X">>,
     CDELT    |-> <<"C", "D", "E", "L", "T">>,
     CRVAL    |-> <<"C", "R", "V", "A", "L">>,
     BUNIT    |-> <<"B", "U", "N", "I", "T">>,
     DATE_OBS |-> <<"D", "A", "T", "E", "-", "O", "B", "S">>,
     RA       |-> <<"R", "A">>,
     EN       |-> <<"E", "N">>]

\* "NAXIS1", "CRPIX2", ...
Numbered(stem, n) == Append(stem, DigitChar(n))

\* line number of the first record whose keyword is key, 0 if there is none
DataCube_chkhd(c, key) ==
    FirstLine({n \in 1..Len(c.header) :
                  /\ strncmp(c.header[n], key)
                  /\ ByteAt(c.header[n], Len(key)) \in {" ", "="}})

\* flag and buffer after DataCube_gethd_raw(this, key, buffer)
DataCube_gethd_raw(c, key, buffer) ==
    LET line == FirstLine({n \in 1..Len(c.header) : strncmp(c.header[n], key)})
    IN  IF line > 0 THEN [flag |-> 0, buffer |-> c.header[line].value]
                    ELSE [flag |-> 1, buffer |-> buffer]

\* the rest of a character string behind its leading spaces
RECURSIVE SkipSpaces(_)
SkipSpaces(s) ==
    IF s # << >> /\ s[1] = " " THEN SkipSpaces(Tail(s)) ELSE s

\* the number spelled by the leading decimal digits of s, following acc
RECURSIVE ParseDigits(_, _)
ParseDigits(s, acc) ==
    IF s # << >> /\ isdigit(s[1])
    THEN ParseDigits(Tail(s), 10 * acc + DigitValue(s[1]))
    ELSE acc

\* strtol(s, NULL, 10)
strtol(s) ==
    LET t == SkipSpaces(s)
    IN  IF t = << >> THEN 0
        ELSE IF t[1] = "-" THEN -ParseDigits(Tail(t), 0)
        ELSE IF t[1] = "+" THEN ParseDigits(Tail(t), 0)
        ELSE ParseDigits(t, 0)

DataCube_gethd_int(c, key) ==
    LET r == DataCube_gethd_raw(c, key, << >>)
    IN  IF r.flag # 0 THEN 0 ELSE strtol(r.buffer)

\* the only element of a set of one element.  Only({F(x) : x \in {e}}) is
\* F(e) with e computed once, however often F uses it.
Only(S) == CHOOSE x \in S : TRUE

\* strtod(s, NULL) as a count of 1/Unit: sign, digits, a decimal point
\* with digits, an exponent
strtod(s) ==
    LET \* the leading decimal digits of x
        LeadingDigits(x) ==
            LET stop == FirstLine({i \in 1..Len(x) : ~isdigit(x[i])})
            IN  IF stop = 0 THEN x ELSE SubSeq(x, 1, stop - 1)
        t == SkipSpaces(s)
        negative == t # << >> /\ t[1] = "-"
        u == IF t # << >> /\ t[1] \in {"-", "+"} THEN Tail(t) ELSE t
        whole == LeadingDigits(u)
        v == SubSeq(u, Len(whole) + 1, Len(u))
        point == v # << >> /\ v[1] = "."
        places == IF point THEN LeadingDigits(Tail(v)) ELSE << >>
        w == SubSeq(v, Len(places) + (IF point THEN 2 ELSE 1), Len(v))
        exponent == IF w # << >> /\ w[1] \in {"E", "e"}
                    THEN strtol(Tail(w)) ELSE 0
        \* the places without the zeros at their end
        fraction ==
            Only({LET nonzero == {i \in 1..Len(x) : x[i] # "0"}
                  IN  SubSeq(x, 1, IF nonzero = {} THEN 0
                                   ELSE CHOOSE i \in nonzero :
                                            \A j \in nonzero : j <= i) :
                  x \in {places}})
        shift == exponent - Len(fraction) + 3
        digits == ParseDigits(whole \o fraction, 0)
        magnitude == IF shift >= 0 THEN digits * 10^shift
                     ELSE digits \div 10^(-shift)
    IN  IF negative THEN -magnitude ELSE magnitude

DataCube_gethd_flt(c, key) ==
    LET r == DataCube_gethd_raw(c, key, << >>)
    IN  IF r.flag # 0 THEN NaN ELSE strtod(r.buffer)

DataCube_gethd_bool(c, key) ==
    LET r == DataCube_gethd_raw(c, key, << >>)
        t == SkipSpaces(r.buffer)
    IN  r.flag = 0 /\ t # << >> /\ t[1] = "T"

\* strchr(s + from - 1, ch): position of the first ch at or behind position
\* from, 0 for NULL
strchr(s, from, ch) == FirstLine({i \in from..Len(s) : s[i] = ch})

\* the closing quotation mark: a mark followed by another mark is skipped
RECURSIVE ClosingQuote(_, _)
ClosingQuote(s, right) ==
    IF right # 0 /\ right < Len(s) /\ s[right + 1] = "'"
    THEN ClosingQuote(s, strchr(s, right + 2, "'"))
    ELSE right

\* DataCube_gethd_str(this, key, value): the flag returned, the destination
\* afterwards, and exit when an ensure() ended the program
DataCube_gethd_str(c, key, value) ==
    LET r == DataCube_gethd_raw(c, key, << >>)
        left == strchr(r.buffer, 1, "'")
        right == IF left = 0 THEN 0
                 ELSE ClosingQuote(r.buffer, strchr(r.buffer, left + 1, "'"))
    IN  IF r.flag # 0 THEN [flag |-> 1, value |-> value, exit |-> FALSE]
        ELSE IF left = 0 \/ right = 0
             THEN [flag |-> 0, value |-> value, exit |-> TRUE]
        ELSE [flag |-> 0, value |-> SubSeq(r.buffer, left + 1, right - 1),
              exit |-> FALSE]

\* the cube and the value returned after DataCube_puthd_raw(this, key,
\* buffer); exit when an ensure() ended the program
DataCube_puthd_raw(c, key, buffer) ==
    LET line == DataCube_chkhd(c, key)
        end == DataCube_chkhd(c, KEY.END)
        expand == end % FITS_HEADER_LINES = 0
        header == IF expand
                  THEN c.header \o [i \in 1..FITS_HEADER_LINES |-> BlankLine]
                  ELSE c.header
        entry == [Overwrite(header[end], key)
                     EXCEPT !.eq = "=", !.value = buffer]
    IN  IF Len(key) = 0 \/ Len(key) > FITS_HEADER_KEYWORD_SIZE
        THEN [this |-> c, ret |-> 0, exit |-> TRUE]
        ELSE IF line > 0
        THEN [this |-> [c EXCEPT !.header[line].value = buffer],
              ret |-> 0, exit |-> FALSE]
        ELSE IF end = 0
        THEN [this |-> c, ret |-> 0, exit |-> TRUE]
        ELSE [this |-> [c EXCEPT
                 !.header = [header EXCEPT
                                ![end] = entry,
                                ![end + 1] = Overwrite(@, KEY.END)],
                 !.header_size = IF expand THEN @ + FITS_HEADER_BLOCK_SIZE
                                 ELSE @],
              ret |-> 1, exit |-> FALSE]

\* decimal digits of a number n >= 0
RECURSIVE Decimal(_)
Decimal(n) ==
    IF n < 10 THEN <<DigitChar(n)>>
    ELSE Append(Decimal(n \div 10), DigitChar(n % 10))

\* a character string right-justified in a field of the given width
\* (printf pads, it never cuts)
Justify(s, width) ==
    IF Len(s) < width THEN Spaces(width - Len(s)) \o s ELSE s

\* snprintf(buffer, ..., "%ld", value)
printf_ld(value) ==
    IF value < 0 THEN <<"-">> \o Decimal(-value) ELSE Decimal(value)

\* snprintf(buffer, ..., "%.11E", value): one digit, the decimal point, 11
\* digits, the exponent with sign and two digits.  A number is a count of
\* 1/Unit, so its digits beyond the 11th place are all zero.
printf_E(value) ==
    LET n == Abs(value)
        d == Decimal(n)
        e == Len(d) - 4
        mantissa == <<d[1], ".">> \o Tail(d) \o
                    [i \in 1..(12 - Len(d)) |-> "0"]
        exponent == <<"E", IF e < 0 \/ n = 0 THEN (IF n = 0 THEN "+" ELSE "-")
                           ELSE "+">> \o
                    (IF n = 0 THEN <<"0", "0">>
                     ELSE <<DigitChar(Abs(e) \div 10), DigitChar(Abs(e) % 10)>>)
    IN  (IF value < 0 THEN <<"-">> ELSE << >>) \o mantissa \o exponent

DataCube_puthd_int(c, key, value) ==
    LET buffer == Justify(printf_ld(value), FITS_HEADER_FIXED_WIDTH)
    IN  IF Len(buffer) > FITS_HEADER_FIXED_WIDTH
        THEN [this |-> c, ret |-> 0, exit |-> TRUE]
        ELSE DataCube_puthd_raw(c, key, buffer)

DataCube_puthd_flt(c, key, value) ==
    LET buffer == Justify(printf_E(value), FITS_HEADER_FIXED_WIDTH)
    IN  IF Len(buffer) > FITS_HEADER_FIXED_WIDTH
        THEN [this |-> c, ret |-> 0, exit |-> TRUE]
        ELSE DataCube_puthd_raw(c, key, buffer)

DataCube_puthd_bool(c, key, value) ==
    DataCube_puthd_raw(c, key,
        Spaces(FITS_HEADER_FIXED_WIDTH - 1) \o <<IF value THEN "T" ELSE "F">>)

DataCube_puthd_str(c, key, value) ==
    IF Len(value) > FITS_HEADER_VALUE_SIZE - 2
    THEN [this |-> c, ret |-> 0, exit |-> TRUE]
    ELSE DataCube_puthd_raw(c, key, <<"'">> \o value \o <<"'">>)

\* the header with line number line taken out: the lines behind it move up
\* and the last line is filled with spaces
RemoveLine(header, line) ==
    SubSeq(header, 1, line - 1) \o SubSeq(header, line + 1, Len(header))
        \o <<BlankLine>>

\* the header after the loop of DataCube_delhd
RECURSIVE RemoveAll(_, _)
RemoveAll(c, key) ==
    LET line == DataCube_chkhd(c, key)
    IN  IF line = 0 THEN c
        ELSE RemoveAll([c EXCEPT !.header = RemoveLine(@, line)], key)

\* the cube and the value returned after DataCube_delhd(this, key)
DataCube_delhd(c, key) ==
    LET removed == RemoveAll(c, key)
        line == DataCube_chkhd(removed, KEY.END)
        last_line == removed.header_size \div FITS_HEADER_LINE_SIZE
        empty_blocks == (last_line - line) \div FITS_HEADER_LINES
        header_size == removed.header_size
                         - empty_blocks * FITS_HEADER_BLOCK_SIZE
    IN  IF Len(key) = 0 \/ Len(key) > FITS_HEADER_KEYWORD_SIZE
        THEN [this |-> c, ret |-> 0, exit |-> TRUE]
        ELSE IF DataCube_chkhd(c, key) = 0
        THEN [this |-> c, ret |-> 1, exit |-> FALSE]
        ELSE IF line = 0
        THEN [this |-> removed, ret |-> 0, exit |-> TRUE]
        ELSE [this |-> [removed EXCEPT
                 !.header_size = header_size,
                 !.header = SubSeq(@, 1,
                                   header_size \div FITS_HEADER_LINE_SIZE)],
              ret |-> 0, exit |-> FALSE]


-----------------------------------------------------------------------------
(* Header methods called on a cube made by DataCube_blank.                 *)

\* number of header methods called on one cube
MaxCalls == 2

\* one typed put: e.put names the type
TypedPut(c, e) ==
    CASE e.put = "bool" -> DataCube_puthd_bool(c, e.key, e.value)
      [] e.put = "int"  -> DataCube_puthd_int(c, e.key, e.value)
      [] e.put = "flt"  -> DataCube_puthd_flt(c, e.key, e.value)
      [] e.put = "str"  -> DataCube_puthd_str(c, e.key, e.value)

\* the cube after a sequence of typed puts
RECURSIVE PutAll(_, _)
PutAll(c, entries) ==
    IF entries = << >> THEN c
    ELSE LET r == TypedPut(c, entries[1])
         IN  IF r.exit THEN c ELSE PutAll(r.this, Tail(entries))

Entry(put, key, value) == [put |-> put, key |-> key, value |-> value]

\* CRPIXn, CDELTn and CRVALn set to 1.0
Axis(n) ==
    <<Entry("flt", Numbered(KEY.CRPIX, n), Unit),
      Entry("flt", Numbered(KEY.CDELT, n), Unit),
      Entry("flt", Numbered(KEY.CRVAL, n), Unit)>>

\* DataCube_blank with the header and the derived fields of the object
DataCube_blank_object(nx, ny, nz, type) ==
    LET dimension == IF nz > 1 THEN 3 ELSE IF ny > 1 THEN 2 ELSE 1
        object ==
            [data_size   |-> nx * ny * nz,
             header_size |-> FITS_HEADER_BLOCK_SIZE,
             data_type   |-> type,
             word_size   |-> Abs(type) \div 8,
             dimension   |-> dimension,
             axis_size   |-> DataCube_blank(nx, ny, nz, type).axis_size,
             data        |-> DataCube_blank(nx, ny, nz, type).data,
             header      |-> [i \in 1..FITS_HEADER_LINES |->
                                IF i = 1 THEN Overwrite(BlankLine, KEY.END)
                                ELSE BlankLine]]
    IN  PutAll(object,
               <<Entry("bool", KEY.SIMPLE, TRUE),
                 Entry("int", KEY.BITPIX, type),
                 Entry("int", KEY.NAXIS, dimension),
                 Entry("int", Numbered(KEY.NAXIS, 1), nx)>>
               \o (IF dimension > 1
                   THEN <<Entry("int", Numbered(KEY.NAXIS, 2), ny)>>
                   ELSE << >>)
               \o (IF dimension > 2
                   THEN <<Entry("int", Numbered(KEY.NAXIS, 3), nz)>>
                   ELSE << >>)
               \o Axis(1)
               \o (IF dimension > 1 THEN Axis(2) ELSE << >>)
               \o (IF dimension > 1 THEN Axis(3) ELSE << >>))

\* the keywords the calling code puts and deletes: NAXIS is in the header
\* already and starts the keyword NAXIS1
HeaderKeys == {KEY.NAXIS, KEY.BUNIT, KEY.DATE_OBS, KEY.RA, KEY.EN}
HeaderInts == {-3, 12}
HeaderStrings == {<<"J", "y">>, <<"a", "'", "b">>}

\* further keywords H00, H01, ... of a long header
History(i) == <<"H", DigitChar(i \div 10), DigitChar(i % 10)>>

\* the cube after puts of the further keywords i .. n
RECURSIVE Fill(_, _, _)
Fill(c, i, n) ==
    IF i > n THEN c
    ELSE LET r == DataCube_puthd_int(c, History(i), i)
         IN  IF r.exit THEN c ELSE Fill(r.this, i + 1, n)

\* numbers of further keywords: none, and as many as bring END to the last
\* two lines of the first block of a one-dimensional cube
Fills == {0, FITS_HEADER_LINES - 9, FITS_HEADER_LINES - 8}

\* the cubes the header methods are called on
HeaderCubes ==
    {Fill(DataCube_blank_object(2, 1, 1, -32), 1, n) : n \in Fills}
        \cup {DataCube_blank_object(2, 2, 2, -32)}

InitHeader ==
    /\ LinkerIdle
    /\ ScfindIdle
    /\ FilesIdle
    /\ run = NULL
    /\ flagger = NULL
    /\ seeds = NULL
    /\ this \in HeaderCubes
    /\ called = [op |-> "DataCube_blank", key |-> << >>, value |-> 0,
                 ret |-> 0, exit |-> FALSE, before |-> NULL, n |-> 0,
                 prior |-> [op |-> "", key |-> << >>]]

\* a further header method may be called
Callable == ~called.exit /\ called.n < MaxCalls

\* the call of a header method with result r
Call(op, key, value, r) ==
    /\ Callable
    /\ this' = r.this
    /\ called' = [op |-> op, key |-> key, value |-> value, ret |-> r.ret,
                  exit |-> r.exit, before |-> this, n |-> called.n + 1,
                  prior |-> [op |-> called.op, key |-> called.key]]
    /\ UNCHANGED <<lvars, svars, disk, streams, region, little_endian, run,
                 flagger, seeds>>

PutInt ==
    \E key \in HeaderKeys, value \in HeaderInts :
        Call("DataCube_puthd_int", key, value,
             DataCube_puthd_int(this, key, value))

PutBool ==
    \E key \in HeaderKeys, value \in BOOLEAN :
        Call("DataCube_puthd_bool", key, value,
             DataCube_puthd_bool(this, key, value))

PutStr ==
    \E key \in HeaderKeys, value \in HeaderStrings :
        Call("DataCube_puthd_str", key, value,
             DataCube_puthd_str(this, key, value))

DelHd ==
    \E key \in HeaderKeys :
        Call("DataCube_delhd", key, 0, DataCube_delhd(this, key))

NextHeader ==
    \/ PutInt
    \/ PutBool
    \/ PutStr
    \/ DelHd

SpecHeader == InitHeader /\ [][NextHeader]_vars

-----------------------------------------------------------------------------
(* FITS files: DataCube_save and DataCube_load.  A file holds header       *)
(* lines, the bytes of the payload and a number of zero bytes behind them; *)
(* a word of the payload in memory is the sequence of its bytes.           *)

\* swap_byte_order(word, size)
swap_byte_order(word, size) ==
    IF size \in {2, 4, 8} THEN [i \in 1..size |-> word[size + 1 - i]]
    ELSE word

\* the cube after the loop that swaps every word of the payload
SwapPayload(c) ==
    IF little_endian /\ c.word_size > 1
    THEN [c EXCEPT !.data = [i \in DOMAIN @ |->
                                swap_byte_order(@[i], c.word_size)]]
    ELSE c

\* what DataCube_save hands to fwrite: header, payload and footer
Written(c) ==
    LET size_footer == (c.data_size * c.word_size) % FITS_HEADER_BLOCK_SIZE
        payload == SwapPayload(c).data
    IN  [header |-> c.header,
         data   |-> [k \in 1..(c.data_size * c.word_size) |->
                       payload[(k - 1) \div c.word_size]
                              [((k - 1) % c.word_size) + 1]],
         footer |-> IF size_footer # 0
                    THEN FITS_HEADER_BLOCK_SIZE - size_footer ELSE 0]

\* The stream of DataCube_save is never closed or flushed, so how much of
\* what was written has reached the file when DataCube_save returns is up
\* to the buffering of the C library: nothing, the header blocks, or all of
\* it.  (A reader cannot tell any other amount from one of these three.)
Flushed(f) ==
    {f, [f EXCEPT !.data = << >>, !.footer = 0],
     [header |-> << >>, data |-> << >>, footer |-> 0]}

\* disk, streams and cube after DataCube_save(this, filename, overwrite),
\* with flushed the part of the output that has reached the file
DataCube_save(c, filename, overwrite, flushed, id) ==
    IF ~overwrite /\ filename \in DOMAIN disk
    THEN [disk |-> disk, streams |-> streams, this |-> c, exit |-> TRUE]
    ELSE [disk    |-> [n \in DOMAIN disk \cup {filename} |->
                          IF n = filename THEN flushed ELSE disk[n]],
          streams |-> streams \cup
                        {[filename |-> filename, id |-> id,
                          mode |-> IF overwrite THEN "wb" ELSE "wxb"]},
          this    |-> SwapPayload(SwapPayload(c)),
          exit    |-> FALSE]

\* the effective bounds of a region on axes of the given sizes; the whole
\* axes for NULL
EffectiveRegion(reg, size) ==
    [a \in 0..2 |->
        [size |-> size[a],
         min |-> IF reg # << >> /\ reg[2 * a + 1] > 0
                 THEN reg[2 * a + 1] ELSE 0,
         max |-> IF reg # << >> /\ reg[2 * a + 2] % SizeMod
                                      < SizeSub(size[a], 1)
                 THEN reg[2 * a + 2] % SizeMod ELSE SizeSub(size[a], 1)]]

\* largest number of bytes that realloc can provide
MaxAlloc == 2^29

\* faulty variant: the word behind the one asked for
ReadWord_next(f, index, word_size) ==
    [i \in 1..word_size |->
        IF (index + 1) * word_size + i <= Len(f.data)
        THEN f.data[(index + 1) * word_size + i] ELSE 0]

\* the word with the given index in the payload of a file
ReadWord(f, index, word_size) ==
    [i \in 1..word_size |->
        IF index * word_size + i <= Len(f.data)
        THEN f.data[index * word_size + i] ELSE 0]

\* the header of a cube after the adjustment to a region with the given
\* sizes and lower corner
AdjustHeader(c, n, min) ==
    LET Size(h, a) ==
            IF DataCube_chkhd(h, Numbered(KEY.NAXIS, a + 1)) # 0
            THEN DataCube_puthd_int(h, Numbered(KEY.NAXIS, a + 1),
                                    n[a]).this
            ELSE h
        Pixel(h, a) ==
            IF DataCube_chkhd(h, Numbered(KEY.CRPIX, a + 1)) # 0
            THEN Only({DataCube_puthd_flt(
                           h, Numbered(KEY.CRPIX, a + 1),
                           IF isnan(v) THEN NaN ELSE v - min[a] * Unit).this :
                       v \in {DataCube_gethd_flt(h, Numbered(KEY.CRPIX,
                                                             a + 1))}})
            ELSE h
    IN  Only({Pixel(h5, 2) : h5 \in
          {Pixel(h4, 1) : h4 \in
            {Pixel(h3, 0) : h3 \in
              {Size(h2, 2) : h2 \in
                {Size(h1, 1) : h1 \in
                  {Size(h0, 0) : h0 \in {c}}}}}}})

\* DataCube_load(this, filename, region): the cube afterwards (the cube as
\* it was where an ensure() ended the program), exit if an ensure() ended
\* the program, open if the stream was still open then, and the effective
\* bounds of the region.  zero says that realloc returns a pointer for a
\* request of 0 bytes.
DataCube_load(c, filename, reg, zero) ==
    LET f == disk[filename]
        \* number of the first header block with a line that starts with
        \* END, 0 if there is none
        end == FirstLine({n \in 1..Len(f.header) :
                            strncmp(f.header[n], KEY.END)})
        block == IF end = 0 THEN 0 ELSE (end - 1) \div FITS_HEADER_LINES + 1
        Result(object, exit, open, bounds) ==
            [this |-> object, exit |-> exit, open |-> open,
             bounds |-> bounds]
        \* the object after lines 387-393, h the object with the header
        Crucial(h) ==
            [h EXCEPT
                !.data_type = DataCube_gethd_int(h, KEY.BITPIX),
                !.dimension = DataCube_gethd_int(h, KEY.NAXIS),
                !.axis_size = [a \in 0..3 |->
                    DataCube_gethd_int(h, Numbered(KEY.NAXIS, a + 1))
                        % SizeMod],
                !.word_size = Abs(DataCube_gethd_int(h, KEY.BITPIX)) \div 8]
        \* lines 425-511, t the object after the sanity checks and b the
        \* effective bounds of the region
        Read(t, b) ==
            LET n == [a \in 0..2 |->
                        IF reg = << >> THEN 0
                        ELSE SizeAdd(SizeSub(b[a].max, b[a].min), 1)]
                region_size == SizeMul(SizeMul(n[0], n[1]), n[2])
                full_size ==
                    IF t.dimension = 1 THEN t.axis_size[0]
                    ELSE IF t.dimension = 2
                    THEN SizeMul(t.axis_size[0], t.axis_size[1])
                    ELSE SizeMul(SizeMul(SizeMul(t.axis_size[0],
                                                 t.axis_size[1]),
                                         t.axis_size[2]),
                                 IF t.dimension = 3 THEN 1
                                 ELSE t.axis_size[3])
                bytes == SizeMul(t.word_size,
                                 IF reg = << >> THEN full_size
                                 ELSE region_size)
                rows == b[1].min <= b[1].max /\ b[2].min <= b[2].max
                last == IndexOf(t, b[0].min, b[1].max, b[2].max) + n[0]
                available == Len(f.data) + f.footer
                complete ==
                    IF reg = << >>
                    THEN full_size * t.word_size <= available
                    ELSE \/ ~rows
                         \/ /\ b[1].max < MaxAlloc /\ b[2].max < MaxAlloc
                            /\ n[0] = 0 \/ last * t.word_size <= available
                whole == [t EXCEPT
                            !.data_size = full_size,
                            !.data = [p \in 0..(full_size - 1) |->
                                         ReadWord(f, p, t.word_size)]]
                part == [t EXCEPT
                    !.data_size = region_size,
                    !.axis_size = [a \in 0..3 |->
                                      IF a < 3 THEN n[a] ELSE @[a]],
                    !.data = [p \in 0..(region_size - 1) |->
                        ReadWord(f,
                                 IndexOf(t,
                                         b[0].min + (p % n[0]),
                                         b[1].min + ((p \div n[0]) % n[1]),
                                         b[2].min + (p \div (n[0] * n[1]))),
                                 t.word_size)]]
            IN  IF bytes > MaxAlloc \/ (bytes = 0 /\ ~zero) \/ ~complete
                THEN Result(c, TRUE, TRUE, b)
                ELSE IF reg = << >>
                THEN Result(Only({SwapPayload(x) : x \in {whole}}),
                            FALSE, FALSE, b)
                ELSE Result(Only({SwapPayload(y) : y \in
                              {AdjustHeader(x, n, [a \in 0..2 |-> b[a].min]) :
                               x \in {part}}}),
                            FALSE, FALSE, b)
        \* lines 383-417, t the object with the crucial header elements
        Checked(t) ==
            LET bscale == DataCube_gethd_flt(t, <<"B", "S", "C", "A", "L",
                                                  "E">>)
                bzero == DataCube_gethd_flt(t, <<"B", "Z", "E", "R", "O">>)
            IN  IF \/ ~strncmp(t.header[1], KEY.SIMPLE)
                   \/ t.data_type \notin {-64, -32, 8, 16, 32, 64}
                   \/ t.dimension \notin 1..4
                   \/ (t.dimension = 4 /\ t.axis_size[3] # 1)
                   \/ ~(isnan(bscale) \/ bscale = Unit)
                   \/ ~(isnan(bzero) \/ bzero = 0)
                THEN Result(c, TRUE, TRUE, << >>)
                ELSE Only({Read(t, b) :
                           b \in {EffectiveRegion(reg, t.axis_size)}})
    IN  IF reg # << >> /\ (Len(reg) # 6 \/ \E a \in 0..2 :
                                              reg[2 * a + 1] > reg[2 * a + 2])
        THEN Result(c, TRUE, FALSE, << >>)
        ELSE IF filename \notin DOMAIN disk
        THEN Result(c, TRUE, FALSE, << >>)
        ELSE IF block = 0 \/ Len(f.header) < block * FITS_HEADER_LINES
        THEN Result(c, TRUE, TRUE, << >>)
        ELSE Only({Checked(t) : t \in
               {Crucial(h) : h \in
                 {[c EXCEPT
                     !.header = SubSeq(f.header, 1,
                                       block * FITS_HEADER_LINES),
                     !.header_size = block * FITS_HEADER_BLOCK_SIZE]}}})

-----------------------------------------------------------------------------
(* Saving and loading in one run of the program.                           *)

\* a cube with a payload: pixel p holds the bytes p + 1, 0, .., 0, 64
Payload(c) ==
    [c EXCEPT !.data = [p \in 0..(c.data_size - 1) |->
        [i \in 1..c.word_size |->
            IF i = 1 THEN p + 1 ELSE IF i = c.word_size THEN 64 ELSE 0]]]

\* the cubes that are saved, and that the files to load were written from:
\* three, two and one-dimensional, one without CRPIXn, one with NAXIS = 4
Cube3D == Payload(DataCube_blank_object(3, 2, 2, -32))

FileCubes ==
    {Cube3D,
     DataCube_delhd(DataCube_delhd(DataCube_delhd(
         Cube3D, Numbered(KEY.CRPIX, 1)).this,
         Numbered(KEY.CRPIX, 2)).this, Numbered(KEY.CRPIX, 3)).this,
     DataCube_puthd_int(DataCube_puthd_int(Cube3D, KEY.NAXIS, 4).this,
                        Numbered(KEY.NAXIS, 4), 1).this,
     Payload(DataCube_blank_object(2, 2, 1, 16)),
     Payload(DataCube_blank_object(3, 1, 1, 8))}

\* the regions passed to DataCube_load: none, the whole of Cube3D, inside
\* it, beyond its upper end, beyond it altogether, negative, and invalid
Regions ==
    {<< >>,
     <<0, 2, 0, 1, 0, 1>>,
     <<1, 2, 0, 1, 1, 1>>,
     <<1, 1, 1, 1, 0, 1>>,
     <<0, 5, 0, 0, 0, 0>>,
     <<3, 4, 0, 1, 0, 0>>,
     <<4, 5, 1, 1, 0, 0>>,
     <<-2, -1, 0, 1, 0, 1>>,
     <<1, 0, 0, 0, 0, 0>>}

InitFile ==
    /\ LinkerIdle
    /\ ScfindIdle
    /\ run = NULL
    /\ flagger = NULL
    /\ seeds = NULL
    /\ little_endian \in BOOLEAN
    /\ region \in Regions
    /\ streams = {}
    /\ \E c \in FileCubes : disk = [n \in {"in"} |-> Written(c)]
    /\ this \in {Cube3D, Payload(DataCube_blank_object(3, 1, 1, 8))}
    /\ called = [op |-> "DataCube_blank", key |-> "", value |-> << >>,
                 ret |-> 0, exit |-> FALSE, before |-> NULL, n |-> 0,
                 prior |-> [op |-> "", key |-> "", value |-> << >>]]

\* the call of DataCube_load or DataCube_save on a file
FileCall(op, filename, value, object, exit) ==
    /\ Callable
    /\ this' = object
    /\ called' = [op |-> op, key |-> filename, value |-> value, ret |-> 0,
                  exit |-> exit, before |-> this, n |-> called.n + 1,
                  prior |-> [op |-> called.op, key |-> called.key,
                             value |-> called.value]]
    /\ UNCHANGED <<lvars, svars, region, little_endian, run, flagger, seeds>>

Load ==
    /\ Callable
    /\ \E filename \in {"in", "out"}, zero \in BOOLEAN :
        \E r \in {DataCube_load(this, filename, region, zero)} :
            /\ FileCall("DataCube_load", filename,
                        [open |-> r.open, region |-> r.bounds],
                        r.this, r.exit)
            /\ UNCHANGED <<disk, streams>>

Save ==
    /\ Callable
    /\ \E overwrite \in BOOLEAN, flushed \in Flushed(Written(this)) :
        \E r \in {DataCube_save(this, "out", overwrite, flushed,
                                called.n)} :
            /\ FileCall("DataCube_save", "out",
                        [fresh |-> "out" \notin DOMAIN disk,
                         flushed |-> flushed],
                        r.this, r.exit)
            /\ disk' = r.disk
            /\ streams' = r.streams

NextFile ==
    \/ Load
    \/ Save

SpecFile == InitFile /\ [][NextFile]_vars

-----------------------------------------------------------------------------
(* The label counter of DataCube_run_linker on a mask of any size. The     *)
(* labelling loop hands out label, label + 1, ... to the sources it finds, *)
(* whatever the mask holds; seeds keeps the counter, the highest label     *)
(* handed out so far (the labels handed out are 2..high) and whether a     *)
(* label was handed out twice.                                             *)

\* INT32_MAX, the largest value of the int32_t counter
Int32Max == 2147483647

\* number of sources found in one behaviour
MaxSeeds == 40

\* the loop after it has found k sources: the counter is k + 2
InitLabels ==
    /\ \E k \in (0..MaxSeeds) \cup ((Int32Max - 2 - MaxSeeds)..(Int32Max - 2)) :
           seeds = [label |-> k + 2, high |-> k + 1, found |-> 0,
                    reused |-> FALSE, pc |-> "link", message |-> ""]
    /\ run = NULL
    /\ flagger = NULL
    /\ LinkerIdle
    /\ ScfindIdle
    /\ FitsIdle

\* the scan reaches a pixel equal to 1: the counter is checked, the pixel
\* gets the label, mark_neighbours labels the rest of the source, the
\* counter advances. label += 1 at INT32_MAX is undefined: the counter
\* wraps to INT32_MIN and is set back to 2 by the test label < 2, or it
\* wraps and the test, which no defined execution needs, is compiled away
NewSource ==
    /\ seeds # NULL
    /\ seeds.pc = "link"
    /\ seeds.found < MaxSeeds
    /\ IF seeds.label > 0
       THEN \E next \in IF seeds.label < Int32Max
                        THEN {IF seeds.label + 1 < 2 THEN 2
                              ELSE seeds.label + 1}
                        ELSE {2, -Int32Max - 1} :
                seeds' = [seeds EXCEPT
                             !.label = next,
                             !.high = Max2(@, seeds.label),
                             !.found = @ + 1,
                             !.reused = @ \/ seeds.label <= seeds.high]
       ELSE seeds' = [seeds EXCEPT
                         !.pc = "failed",
                         !.message = "Too many sources for 32-bit dynamic range of mask."]
    /\ UNCHANGED <<lvars, svars, fvars, run, flagger>>

\* the scan reaches the end of the mask: the labelling pass is over
ScanEnd ==
    /\ seeds # NULL
    /\ seeds.pc = "link"
    /\ seeds' = [seeds EXCEPT !.pc = "filter"]
    /\ UNCHANGED <<lvars, svars, fvars, run, flagger>>

NextLabels ==
    \/ NewSource
    \/ ScanEnd

SpecLabels == InitLabels /\ [][NextLabels]_vars

-----------------------------------------------------------------------------
(* The Flagger class. flagger holds the object (n_par, size, shape,        *)
(* parameters), the last method called with its arguments and result, the  *)
(* error code with which an ensure() ended the program, and the calls of   *)
(* Flagger_add that returned.                                              *)

\* the shapes PIXEL, CHANNEL, REGION and CIRCLE are 0 .. SHAPE_COUNT - 1
SHAPE_COUNT == 4

\* largest number of instructions added in one behaviour
MaxItems == 3

\* the object that Flagger_new returns
Flagger_new ==
    [n_par |-> [s \in 0..(SHAPE_COUNT - 1) |->
                   CASE s = 0 -> 2 [] s = 1 -> 1 [] s = 2 -> 6 [] s = 3 -> 3],
     size |-> 0, shape |-> << >>, parameters |-> << >>]

\* faulty variant: the new instruction is put in front of the others
Flagger_add_in_front(self, shape, ap) ==
    [self EXCEPT
        !.shape = <<shape>> \o @,
        !.parameters = <<[i \in 1..self.n_par[shape] |-> ap[i]]>> \o @,
        !.size = @ + 1]

\* the object after Flagger_add(self, shape, ...) has passed its checks: the
\* first n_par[shape] arguments of the list ap are stored behind the
\* instructions held
Flagger_add(self, shape, ap) ==
    [self EXCEPT
        !.shape = Append(@, shape),
        !.parameters = Append(@, [i \in 1..self.n_par[shape] |-> ap[i]]),
        !.size = @ + 1]

\* the argument lists of a call for a shape: the parameters the shape
\* requires, counted up from some value
Arguments(self, shape) ==
    IF shape \in DOMAIN self.n_par
    THEN {[i \in 1..self.n_par[shape] |-> v + i] : v \in {0, 10}}
    ELSE {<<1, 2>>}

InitFlagger ==
    /\ flagger = [self |-> Flagger_new, call |-> <<"Flagger_new">>,
                  result |-> << >>, error |-> "", added |-> << >>]
    /\ run = NULL
    /\ seeds = NULL
    /\ LinkerIdle
    /\ ScfindIdle
    /\ FitsIdle

\* Flagger_add(self, shape, ...)
Add ==
    /\ flagger # NULL
    /\ flagger.error = ""
    /\ flagger.self.size < MaxItems
    /\ \E shape \in -1..SHAPE_COUNT :
       \E ap \in Arguments(flagger.self, shape) :
           flagger' =
               IF shape >= 0 /\ shape < SHAPE_COUNT
               THEN [flagger EXCEPT
                        !.self = Flagger_add(@, shape, ap),
                        !.call = <<"Flagger_add", shape, ap>>,
                        !.result = << >>,
                        !.added = Append(@, <<shape, ap>>)]
               ELSE [flagger EXCEPT
                        !.call = <<"Flagger_add", shape, ap>>,
                        !.result = << >>,
                        !.error = "ERR_USER_INPUT"]
    /\ UNCHANGED <<lvars, svars, fvars, run, seeds>>

\* Flagger_size(self)
Size ==
    /\ flagger # NULL
    /\ flagger.error = ""
    /\ flagger' = [flagger EXCEPT !.call = <<"Flagger_size">>,
                                  !.result = <<flagger.self.size>>]
    /\ UNCHANGED <<lvars, svars, fvars, run, seeds>>

\* Flagger_get(self, index, &shape, &parameters)
GetItem ==
    /\ flagger # NULL
    /\ flagger.error = ""
    /\ \E index \in 0..MaxItems :
           flagger' =
               IF index < flagger.self.size
               THEN [flagger EXCEPT
                        !.call = <<"Flagger_get", index>>,
                        !.result = <<flagger.self.shape[index + 1],
                                     flagger.self.parameters[index + 1]>>]
               ELSE [flagger EXCEPT
                        !.call = <<"Flagger_get", index>>,
                        !.result = << >>,
                        !.error = "ERR_INDEX_RANGE"]
    /\ UNCHANGED <<lvars, svars, fvars, run, seeds>>

NextFlagger ==
    \/ Add
    \/ Size
    \/ GetItem

SpecFlagger == InitFlagger /\ [][NextFlagger]_vars

-----------------------------------------------------------------------------
(* The pipeline: main() from the loading of the data cube to its return.   *)
(* run holds the settings that main extracts from the parameters, the      *)
(* position of main, the objects main holds and a log of the stages that   *)
(* ran. A data cube is the sequence of the operations applied to its       *)
(* payload since it was loaded (<< >> is the unmodified input), a mask is  *)
(* the data cube the finder saw.                                           *)

\* largest number of sources that the linker leaves in the catalogue
MaxSources == 2

\* the switches main reads from the parameter settings
Settings ==
    [use_region : BOOLEAN, use_weights : BOOLEAN,
     use_noise_scaling : BOOLEAN, noise_local : BOOLEAN,
     use_scfind : BOOLEAN, use_parameteriser : BOOLEAN,
     write_catalog : BOOLEAN, write_noise : BOOLEAN,
     write_filtered : BOOLEAN, write_mask : BOOLEAN,
     write_moments : BOOLEAN, write_cubelets : BOOLEAN]

\* main after the settings were read, the paths set up and the overwrite
\* conditions checked: it holds the parameters, the paths and the region
InitMain ==
    /\ \E settings \in Settings :
           run = [pc |-> "load", set |-> settings,
                  dataCube |-> <<"NULL">>, maskCube |-> <<"NULL">>,
                  sources |-> 0,
                  owned |-> {"par", "paths"} \cup
                            (IF settings.use_region THEN {"region"} ELSE {}),
                  log |-> << >>, files |-> {}, exit |-> "",
                  message |-> ""]
    /\ flagger = NULL
    /\ seeds = NULL
    /\ LinkerIdle
    /\ ScfindIdle
    /\ FitsIdle

\* faulty variant: the cube is reloaded only after a division by the weights
ReloadRequired_weights_only ==
    run.set.use_weights

\* the condition under which main reloads the data cube
ReloadRequired ==
    run.set.use_weights \/ run.set.use_noise_scaling

\* one stage of main
main ==
    /\ run # NULL
    /\ run.exit = ""
    /\ LET \* stage s ran on the data cube and mask that main holds
           Ran(s) == Append(run.log, [stage |-> s, data |-> run.dataCube,
                                      mask |-> run.maskCube])
       IN
       \* load the data cube (region is NULL unless use_region)
       \/ /\ run.pc = "load"
          /\ run' = [run EXCEPT !.pc = "weights", !.dataCube = << >>,
                                !.owned = @ \cup {"dataCube"},
                                !.log = Ran("load")]
       \* load the weights cube, divide by it, delete it
       \/ /\ run.pc = "weights"
          /\ run' = [run EXCEPT
                 !.pc = "noise",
                 !.dataCube = IF run.set.use_weights
                              THEN Append(@, "weights") ELSE @,
                 !.log = IF run.set.use_weights THEN Ran("weights") ELSE @]
       \* scale the data by the noise, locally (the noise cube is saved
       \* where asked for and deleted) or along the spectral axis
       \/ /\ run.pc = "noise"
          /\ run' = [run EXCEPT
                 !.pc = "filtered",
                 !.dataCube = IF run.set.use_noise_scaling
                              THEN Append(@, "noise") ELSE @,
                 !.files = IF /\ run.set.use_noise_scaling
                              /\ run.set.noise_local
                              /\ run.set.write_noise
                           THEN @ \cup {"noise"} ELSE @,
                 !.log = IF run.set.use_noise_scaling
                         THEN Ran("noise") ELSE @]
       \* write the filtered cube
       \/ /\ run.pc = "filtered"
          /\ run' = [run EXCEPT
                 !.pc = "scfind",
                 !.files = IF /\ run.set.write_filtered
                              /\ run.set.use_weights
                                    \/ run.set.use_noise_scaling
                           THEN @ \cup {"filtered"} ELSE @]
       \* run the S+C finder: the mask cube is what it returns
       \/ /\ run.pc = "scfind"
          /\ run' = [run EXCEPT
                 !.pc = "reload",
                 !.maskCube = IF run.set.use_scfind
                              THEN run.dataCube ELSE @,
                 !.owned = IF run.set.use_scfind
                           THEN @ \cup {"maskCube"} ELSE @,
                 !.log = IF run.set.use_scfind THEN Ran("scfind") ELSE @]
       \* reload the data cube from the input file, same region
       \/ /\ run.pc = "reload"
          /\ run' = [run EXCEPT
                 !.pc = "linker",
                 !.dataCube = IF ReloadRequired THEN << >> ELSE @,
                 !.log = IF ReloadRequired THEN Ran("reload") ELSE @]
       \* run the linker on the data cube and the mask cube: a null mask
       \* ends the program, otherwise the linker leaves some sources
       \/ /\ run.pc = "linker"
          /\ \E n \in 0..MaxSources :
                 run' = IF run.maskCube = <<"NULL">>
                        THEN [run EXCEPT
                                 !.log = Ran("linker"), !.exit = "ensure",
                                 !.message =
                                     "Invalid object pointer provided."]
                        ELSE [run EXCEPT
                                 !.pc = "catalog", !.sources = n,
                                 !.owned = @ \cup {"linker_par"},
                                 !.log = Ran("linker")]
       \* create the catalogue, delete the linker parameters, terminate
       \* if the catalogue is empty
       \/ /\ run.pc = "catalog"
          /\ run' = IF run.sources = 0
                    THEN [run EXCEPT
                             !.owned = (@ \ {"linker_par"}) \cup {"catalog"},
                             !.exit = "ensure",
                             !.message = "No sources left after linking. Terminating pipeline."]
                    ELSE [run EXCEPT
                             !.pc = "parameterise",
                             !.owned = (@ \ {"linker_par"}) \cup {"catalog"}]
       \* measure the source parameters
       \/ /\ run.pc = "parameterise"
          /\ run' = [run EXCEPT
                 !.pc = "save",
                 !.log = IF run.set.use_parameteriser
                         THEN Ran("parameterise") ELSE @]
       \* save the catalogue and the mask cube
       \/ /\ run.pc = "save"
          /\ run' = [run EXCEPT
                 !.pc = "moments",
                 !.files = @ \cup
                     (IF run.set.write_catalog THEN {"catalog"} ELSE {}) \cup
                     (IF run.set.write_mask THEN {"mask"} ELSE {})]
       \* create the moment maps, save and delete them
       \/ /\ run.pc = "moments"
          /\ run' = [run EXCEPT
                 !.pc = "cubelets",
                 !.files = IF run.set.write_moments
                           THEN @ \cup {"moments"} ELSE @,
                 !.log = IF run.set.write_moments
                         THEN Ran("moments") ELSE @]
       \* create and save the cubelets
       \/ /\ run.pc = "cubelets"
          /\ run' = [run EXCEPT
                 !.pc = "cleanup",
                 !.files = IF run.set.write_cubelets
                           THEN @ \cup {"cubelets"} ELSE @,
                 !.log = IF run.set.write_cubelets
                         THEN Ran("cubelets") ELSE @]
       \* delete the cubes, the region, the parameters, the paths and the
       \* catalogue, and return 0
       \/ /\ run.pc = "cleanup"
          /\ run' = [run EXCEPT !.pc = "done", !.owned = {},
                                !.exit = "return",
                                !.message = "Pipeline finished."]
    /\ UNCHANGED <<lvars, svars, fvars, flagger, seeds>>

SpecMain == InitMain /\ [][main]_vars

-----------------------------------------------------------------------------
(* Properties of the linker.                                               *)

Values == {data[i] : i \in DOMAIN data}

\* C1: after DataCube_run_linker on a 0/1 mask the labels present in the
\* mask, next to the background 0, are exactly 1..K for some K >= 0: no gap,
\* and every label of 1..K is carried by a pixel
C1_LabelsContiguous ==
    pc = "done" => \E K \in 0..Cardinality(DOMAIN data) : Values = 1..K

\* a source that was labelled after a removed one survives with label 1
C1_Witness ==
    /\ pc = "done"
    /\ \E i \in DOMAIN data : data[i] = 1 /\ prov.data[i] = 3
    /\ \E i \in DOMAIN prov.data : prov.data[i] = 2 /\ i \notin DOMAIN data

\* C2: every neighbour pixel that mark_neighbours examines lies inside the
\* cube, for every pixel position and every merging radius
C2_NeighboursInsideCube ==
    \A v \in visited :
        ~v.skipped =>
            v.xx < axis_size[0] /\ v.yy < axis_size[1] /\ v.zz < axis_size[2]

HorizontalDistance(v) ==
    (v.xx - v.x) * (v.xx - v.x) + (v.yy - v.y) * (v.yy - v.y)

\* C3 as stated: a neighbour is skipped exactly when dx^2 + dy^2 >= rx * ry
C3_SkippedWhenFar ==
    \A v \in visited : v.skipped <=> HorizontalDistance(v) >= radius.x * radius.y

\* C3 amended: a neighbour is skipped exactly when dx^2 + dy^2 < rx * ry and
\* is considered for linking otherwise
C3_SkippedWhenNear ==
    \A v \in visited : v.skipped <=> HorizontalDistance(v) < radius.x * radius.y

\* one call skipped a direct neighbour and considered a farther one
C3_Witness ==
    /\ \E v \in visited : v.skipped /\ HorizontalDistance(v) > 0
    /\ \E v \in visited : ~v.skipped /\ HorizontalDistance(v) > 0

Smallest(S) == CHOOSE m \in S : \A n \in S : m <= n

\* C4: after DataCube_run_linker the bounding box recorded for every final
\* label is the tight bounding box of the pixels that carry the label
C4_BoundingBoxTight ==
    pc = "done" =>
        \A k \in DOMAIN lpar :
            LET px == {i \in DOMAIN data : data[i] = lpar[k].label}
            IN  /\ px # {}
                /\ lpar[k].x_min = Smallest({CoordX(i) : i \in px})
                /\ lpar[k].x_max = Max({CoordX(i) : i \in px})
                /\ lpar[k].y_min = Smallest({CoordY(i) : i \in px})
                /\ lpar[k].y_max = Max({CoordY(i) : i \in px})
                /\ lpar[k].z_min = Smallest({CoordZ(i) : i \in px})
                /\ lpar[k].z_max = Max({CoordZ(i) : i \in px})

\* the recorded extents of a table row meet the minimum sizes
MeetsMinSize(r) ==
    /\ r.x_max - r.x_min + 1 >= min_size.x
    /\ r.y_max - r.y_min + 1 >= min_size.y
    /\ r.z_max - r.z_min + 1 >= min_size.z

Sources == 2..(Len(prov.lpar) - 1)

PixelsOf(l) == {i \in DOMAIN prov.data : prov.data[i] = l}

\* C5: the size filter is all or nothing per linked source: the source keeps
\* one final label of its own on all of its pixels if and only if its
\* recorded bounding-box extents meet the minimum sizes; otherwise all of
\* its pixels are 0 and it uses up no final label
C5_FilterAllOrNothing ==
    pc = "done" =>
        /\ \A l \in Sources :
             IF MeetsMinSize(prov.lpar[l + 1])
             THEN \E f \in Values :
                     {i \in DOMAIN data : data[i] = f} = PixelsOf(l)
             ELSE \A i \in PixelsOf(l) : Get(data, i) = 0
        /\ Cardinality(Values)
             = Cardinality({l \in Sources : MeetsMinSize(prov.lpar[l + 1])})
        /\ Len(lpar) = Cardinality(Values)

\* one source of two pixels is kept and another one is removed
C5_Witness ==
    /\ pc = "done"
    /\ \E l \in Sources :
          MeetsMinSize(prov.lpar[l + 1]) /\ Cardinality(PixelsOf(l)) >= 2
    /\ \E l \in Sources : ~MeetsMinSize(prov.lpar[l + 1])

\* C6: a pixel that is 0 in the input mask is 0 in every state of the
\* labelling and filtering passes and in the output mask
C6_BackgroundStaysZero == DOMAIN data \subseteq DOMAIN input

\* mark_neighbours examined a background pixel inside the payload
C6_Witness ==
    \E v \in visited :
        /\ ~v.skipped
        /\ DataCube_get_index(v.xx, v.yy, v.zz) < data_size
        /\ DataCube_get_index(v.xx, v.yy, v.zz) \notin DOMAIN input

\* C7: the linker rejects at entry every mask with an axis size of 2^16 or
\* more, so that no coordinate handed to LinkerPar is truncated to 16 bits
C7_WideMaskRejected ==
    pc \notin {"idle", "failed"} => \A a \in 0..2 : axis_size[a] < 2^16

-----------------------------------------------------------------------------
(* Properties of the S+C finder.                                           *)

\* the noise DataCube_run_scfind measures in a payload d of the cube's size
Noise(d) ==
    std_dev_val(d, DataSize(cube), 0, SampleRms(DataSize(cube)), -1)

\* |v| > t * sigma
Exceeds(v, t, sigma) == ~isnan(sigma) /\ Abs(v) * Unit > t * sigma

Masked == {p \in DOMAIN maskCube.data : maskCube.data[p] = 1}

C9_ZeroNoiseReturnsEmptyMask ==
    (DOMAIN par # {} /\ par.threshold > 0 /\ Noise(cube.data) = 0) =>
        /\ spc # "failed"
        /\ spc = "done" => Masked = {}

\* C10: the mask of DataCube_run_scfind has the axis sizes of the input
\* cube and only the values 0 and 1 in every state, and a pixel that is 1
\* stays 1 in every later step.
C10_MaskAccumulates ==
    /\ [](maskCube # NULL =>
            /\ \A a \in 0..2 : maskCube.axis_size[a] = cube.axis_size[a]
            /\ DOMAIN maskCube.data = DOMAIN cube.data
            /\ \A p \in DOMAIN maskCube.data : maskCube.data[p] \in {0, 1})
    /\ [][\A p \in DOMAIN maskCube.data :
            maskCube.data[p] = 1 => maskCube'.data[p] = 1]_vars

\* a pixel detected in the original cube is still 1 after a kernel
\* iteration whose smoothed copy does not cross the threshold there
C10_Witness ==
    \E h \in clipped :
        \E p \in Masked :
            /\ Exceeds(cube.data[p], par.threshold, Noise(cube.data))
            /\ ~Exceeds(h.data[p], par.threshold, Noise(h.data))

-----------------------------------------------------------------------------
(* Properties of the header methods.                                       *)

\* C11: a header put followed by the get of the same type and keyword
\* returns the value that was put: put_int then get_int, put_bool then
\* get_bool, put_str then get_str, whatever other keywords the header
\* holds and whatever characters the string holds
C11_PutGetRoundTrip ==
    /\ called.op = "DataCube_puthd_int" =>
          DataCube_gethd_int(this, called.key) = called.value
    /\ called.op = "DataCube_puthd_bool" =>
          DataCube_gethd_bool(this, called.key) = called.value
    /\ called.op = "DataCube_puthd_str" =>
          DataCube_gethd_str(this, called.key, << >>) =
              [flag |-> 0, value |-> called.value, exit |-> FALSE]

\* C12: the getters agree with DataCube_chkhd.  For a keyword that
\* DataCube_chkhd reports missing (0), get_int returns 0, get_bool returns
\* false and get_str returns the flag 1 and leaves the destination as it
\* was; for a keyword found in line n > 0 the getters read the value field
\* of line n
C12_GettersAgreeWithCheck ==
    \A key \in HeaderKeys :
        LET n == DataCube_chkhd(this, key)
            dest == <<"x">>
        IN  /\ n = 0 =>
                /\ DataCube_gethd_int(this, key) = 0
                /\ ~DataCube_gethd_bool(this, key)
                /\ DataCube_gethd_str(this, key, dest) =
                      [flag |-> 1, value |-> dest, exit |-> FALSE]
            /\ n > 0 =>
                /\ DataCube_gethd_raw(this, key, dest) =
                      [flag |-> 0, buffer |-> this.header[n].value]
                /\ DataCube_gethd_int(this, key) =
                      strtol(this.header[n].value)

\* the records of a header, in order: its lines that are not blank
Records(c) == SelectSeq(c.header, LAMBDA l : l # BlankLine)

\* the keyword of a record: its first eight bytes without the padding
Keyword(l) ==
    SubSeq(l.key, 1,
           FirstLine({i \in 0..FITS_HEADER_KEYWORD_SIZE :
                         \A j \in (i + 1)..FITS_HEADER_KEYWORD_SIZE :
                             l.key[j] = " "}))

\* C13: a put followed by the del of the same keyword leaves no record
\* for it: DataCube_chkhd returns 0 and the getters find nothing; and every
\* del removes all records of its keyword and keeps the other records, END
\* included, with their content and order
C13_PutDelLeavesNoRecord ==
    called.op = "DataCube_delhd" =>
        /\ (called.prior.key = called.key /\
            called.prior.op \in {"DataCube_puthd_int", "DataCube_puthd_bool",
                                 "DataCube_puthd_str"}) =>
              /\ DataCube_chkhd(this, called.key) = 0
              /\ DataCube_gethd_raw(this, called.key, << >>).flag = 1
        /\ Records(this) =
              SelectSeq(Records(called.before),
                        LAMBDA l : Keyword(l) # called.key)

\* the line numbers of the END records of a header
EndLines(c) ==
    {n \in 1..Len(c.header) : Keyword(c.header[n]) = KEY.END}

\* C14: after any sequence of put and del calls on a cube made by
\* DataCube_blank the header size is a positive multiple of the block size
\* and matches the lines held, there is exactly one END record, every line
\* behind it is blank, and END lies in the last block
C14_HeaderWellFormed ==
    /\ this.header_size > 0
    /\ this.header_size % FITS_HEADER_BLOCK_SIZE = 0
    /\ this.header_size = FITS_HEADER_LINE_SIZE * Len(this.header)
    /\ Cardinality(EndLines(this)) = 1
    /\ \A e \in EndLines(this) :
          /\ \A n \in (e + 1)..Len(this.header) : this.header[n] = BlankLine
          /\ Len(this.header) - e < FITS_HEADER_LINES

\* C15: DataCube_puthd_int, DataCube_puthd_bool and DataCube_puthd_str
\* return 0 if a new header entry was created (the keyword was not in the
\* header) and 1 if an existing header entry was overwritten
C15_PutReturnValue ==
    called.op \in {"DataCube_puthd_int", "DataCube_puthd_bool",
                   "DataCube_puthd_str"} =>
        called.ret = IF DataCube_chkhd(called.before, called.key) = 0
                     THEN 0 ELSE 1


-----------------------------------------------------------------------------
(* Properties of DataCube_load and DataCube_save.                          *)

\* C16: after DataCube_blank and after every DataCube_load that returns,
\* whatever the dimension of the file and whether or not it has the
\* keywords NAXIS2 and NAXIS3, an axis beyond the dimension of the cube has
\* size 1 (axis 2 if dimension < 3, axis 1 if dimension = 1), so that
\* DataCube_get_data_flt accepts the pixel (x, 0, 0) for every x of axis 0.
C16_ShapeInvariant ==
    (called.op \in {"DataCube_blank", "DataCube_load"} /\ ~called.exit) =>
        /\ this.dimension < 3 => this.axis_size[2] = 1
        /\ this.dimension = 1 => this.axis_size[1] = 1
        /\ \A x \in 0..(this.axis_size[0] - 1) :
              0 < this.axis_size[1] /\ 0 < this.axis_size[2]

\* C17: for every region passed to DataCube_load with min <= max on each
\* axis, bounds that are negative or beyond the cube included, the
\* effective bounds are clipped to the cube, 0 <= min' <= max' <=
\* axis_size - 1 on each axis, so that the loaded size max' - min' + 1 of
\* each axis is between 1 and axis_size.
C17_RegionClipped ==
    (called.op = "DataCube_load" /\ region # << >>
        /\ called.value.region # << >>) =>
        \A a \in 0..2 :
            LET b == called.value.region[a]
            IN  /\ 0 <= b.min /\ b.min <= b.max /\ b.max <= b.size - 1
                /\ SizeAdd(SizeSub(b.max, b.min), 1) \in 1..b.size

\* the header of the file of the last call, as an object for the getters
FileHeader == [header |-> disk[called.key].header]

\* the last call is a DataCube_load that returned, of a three-dimensional
\* file and with a region inside the cube of the file
RegionLoaded ==
    /\ called.op = "DataCube_load" /\ ~called.exit
    /\ region # << >>
    /\ DataCube_gethd_int(FileHeader, KEY.NAXIS) = 3
    /\ \A a \in 0..2 :
          /\ 0 <= region[2 * a + 1]
          /\ region[2 * a + 2]
               < DataCube_gethd_int(FileHeader, Numbered(KEY.NAXIS, a + 1))

\* C18: after the load of a region inside a three-dimensional cube the
\* cube has the axis sizes max - min + 1 of the region, its pixel (x, y, z)
\* is the pixel (x + xmin, y + ymin, z + zmin) of the file (whose bytes are
\* in the opposite order in memory on a little-endian machine), NAXIS1..3
\* in the header are the new sizes, every CRPIXn of the file is decreased by
\* the minimum of its axis, and a CRPIXn that the file does not have is not
\* created.
C18_RegionLoad ==
    RegionLoaded =>
        LET f == disk[called.key]
            size == this.word_size
            min == [a \in 0..2 |-> region[2 * a + 1]]
            nx == DataCube_gethd_int(FileHeader, Numbered(KEY.NAXIS, 1))
            ny == DataCube_gethd_int(FileHeader, Numbered(KEY.NAXIS, 2))
        IN  /\ \A a \in 0..2 :
                  /\ this.axis_size[a]
                       = region[2 * a + 2] - region[2 * a + 1] + 1
                  /\ DataCube_gethd_int(this, Numbered(KEY.NAXIS, a + 1))
                       = this.axis_size[a]
                  /\ IF DataCube_chkhd(FileHeader,
                                       Numbered(KEY.CRPIX, a + 1)) # 0
                     THEN DataCube_gethd_flt(this, Numbered(KEY.CRPIX, a + 1))
                            = DataCube_gethd_flt(FileHeader,
                                                 Numbered(KEY.CRPIX, a + 1))
                                - min[a] * Unit
                     ELSE DataCube_chkhd(this,
                                         Numbered(KEY.CRPIX, a + 1)) = 0
            /\ this.data_size = this.axis_size[0] * this.axis_size[1]
                                   * this.axis_size[2]
            /\ \A x \in 0..(this.axis_size[0] - 1),
                  y \in 0..(this.axis_size[1] - 1),
                  z \in 0..(this.axis_size[2] - 1), i \in 1..size :
                  this.data[IndexOf(this, x, y, z)]
                           [IF little_endian /\ size > 1 THEN size + 1 - i
                            ELSE i]
                    = f.data[((x + min[0]) + nx * ((y + min[1])
                                + ny * (z + min[2]))) * size + i]

\* a region of 2 x 2 x 1 pixels with lower corner (1, 0, 1) loaded from the
\* file of a cube of 3 x 2 x 2 pixels with CRPIXn = 1
C18_RegionLoad_witness ==
    /\ RegionLoaded
    /\ region = <<1, 2, 0, 1, 1, 1>>
    /\ little_endian
    /\ this.axis_size[0] = 2 /\ this.axis_size[1] = 2 /\ this.axis_size[2] = 1
    /\ this.data[0] = <<8, 0, 0, 64>>
    /\ this.data[3] = <<12, 0, 0, 64>>
    /\ DataCube_chkhd(FileHeader, Numbered(KEY.CRPIX, 1)) # 0
    /\ DataCube_gethd_flt(this, Numbered(KEY.CRPIX, 1)) = 0
    /\ DataCube_gethd_flt(this, Numbered(KEY.CRPIX, 2)) = Unit

\* the last call is a DataCube_load without region of the file that the
\* call before it, a DataCube_save of a cube with words of more than one
\* byte, has newly created
SavedAndLoaded ==
    /\ called.op = "DataCube_load" /\ region = << >>
    /\ called.prior.op = "DataCube_save" /\ called.prior.key = called.key
    /\ called.prior.value.fresh
    /\ called.before.word_size > 1

\* C19: DataCube_save of a cube with word_size > 1 to a fresh file followed
\* by DataCube_load of that file without region in the same run gives a
\* cube with the same payload, byte for byte, and the same values of the
\* header keywords; and DataCube_save leaves the payload of the cube in
\* memory as it was.
C19_SaveLoadRoundTrip ==
    /\ SavedAndLoaded =>
          /\ ~called.exit
          /\ this.data = called.before.data
          /\ \A key \in {KEY.BITPIX, KEY.NAXIS} \cup
                        {Numbered(KEY.NAXIS, a) : a \in 1..3} :
                DataCube_gethd_int(this, key)
                    = DataCube_gethd_int(called.before, key)
          /\ \A key \in {Numbered(stem, a) :
                           stem \in {KEY.CRPIX, KEY.CDELT, KEY.CRVAL},
                           a \in 1..3} :
                DataCube_gethd_flt(this, key)
                    = DataCube_gethd_flt(called.before, key)
          /\ DataCube_gethd_bool(this, KEY.SIMPLE)
                = DataCube_gethd_bool(called.before, KEY.SIMPLE)
    /\ (called.op = "DataCube_save" /\ ~called.exit) =>
          this.data = called.before.data

\* C20: every file opened by DataCube_save or DataCube_load is closed when
\* the operation returns, so that after any sequence of calls that returned
\* no stream opened by them is open.
C20_HandlesReleased ==
    ~called.exit => streams = {}

-----------------------------------------------------------------------------
(* Further properties of the S+C finder and of the DataCube methods it     *)
(* calls.                                                                  *)

\* C21: DataCube_boxcar(radius) convolves each spectrum with a boxcar of
\* length 2 * radius + 1 for every radius >= 0.  The S+C finder passes the
\* radius k_z / 2 (integer division) for the spectral kernel k_z, so that
\* without spatial smoothing the smoothed cube is the cube with the detected
\* pixels replaced, filtered along z with that radius: for k_z = 1 the
\* replaced cube itself.
C21_BoxcarLength ==
    (spc = "clip" /\ KernelSpat = 0) =>
        LET replaced == DataCube_set_masked_32(cube, maskCube,
                                               Times(par.maskScaleXY, rms))
            r == KernelSpec \div 2
            nz == cube.axis_size[2]
        IN  \A x \in 0..(cube.axis_size[0] - 1),
               y \in 0..(cube.axis_size[1] - 1), z \in 0..(nz - 1) :
               smoothedCube.data[IndexOf(cube, x, y, z)]
                 = Quot(SumOver([k \in 0..(nz - 1) |->
                                    replaced.data[IndexOf(cube, x, y, k)]],
                                {k \in (z - r)..(z + r) : 0 <= k /\ k < nz}),
                        2 * r + 1)

\* the thresholds the masking methods are compared for
MaskThresholds == {Unit \div 2, Unit, 2 * Unit}

\* the three properties of one masking method on the data cube and the
\* mask of the finder
IdempotentMonotone(Mask(_, _, _)) ==
    \A t1 \in MaskThresholds :
        \A once \in {Mask(cube, maskCube, t1)} :
            /\ Mask(cube, once, t1) = once
            /\ \A p \in DOMAIN maskCube.data :
                  maskCube.data[p] # 0 => once.data[p] # 0
            /\ \A t2 \in {t \in MaskThresholds : t1 < t} :
                  \A other \in {Mask(cube, maskCube, t2)} :
                      \A p \in DOMAIN maskCube.data :
                          other.data[p] = 1 => once.data[p] = 1

\* C22: DataCube_mask (and DataCube_mask_32) applied twice with the same
\* data and threshold gives the mask of one application, never clears a
\* pixel of the mask that was set, and for thresholds t1 < t2 on the same
\* data and mask the pixels set with t2 are among those set with t1.
C22_MaskIdempotentMonotone ==
    MaskArgumentsValid(cube, maskCube) =>
        /\ IdempotentMonotone(DataCube_mask)
        /\ IdempotentMonotone(DataCube_mask_32)

\* the finder has masked a pixel of a cube of which the threshold 1/2
\* masks a pixel more than the threshold 1 does
C22_Witness ==
    /\ MaskArgumentsValid(cube, maskCube)
    /\ spc = "done"
    /\ \E p \in DOMAIN maskCube.data : maskCube.data[p] = 1
    /\ \E p \in DOMAIN maskCube.data :
          /\ maskCube.data[p] = 0
          /\ DataCube_mask(cube, maskCube, Unit \div 2).data[p] = 1
          /\ DataCube_mask_32(cube, maskCube, Unit).data[p] = 0

-----------------------------------------------------------------------------
(* Further properties of the linker: the labelling pass.                   *)

\* the labelling pass is over: prov holds the mask and the table it left
LabellingDone == pc \in {"filter", "done"}

\* the labelling pass has just ended, the filtering pass has not begun
LabellingEnds == pc = "filter" /\ scan = data_size

\* the merging radii are smaller than the axis sizes
RadiiInsideCube ==
    /\ radius.x < axis_size[0]
    /\ radius.y < axis_size[1]
    /\ radius.z < axis_size[2]

\* the pixels i and j lie within the merging box of each other and are not
\* skipped by the test dx^2 + dy^2 < rx * ry
Adjacent(i, j) ==
    LET dx == Abs(CoordX(i) - CoordX(j))
        dy == Abs(CoordY(i) - CoordY(j))
        dz == Abs(CoordZ(i) - CoordZ(j))
    IN  /\ dx <= radius.x
        /\ dy <= radius.y
        /\ dz <= radius.z
        /\ ~(dx * dx + dy * dy < radius.x * radius.y)

\* the candidate pixels joined to a pixel of S by a chain of adjacent
\* candidate pixels
RECURSIVE Chained(_)
Chained(S) ==
    LET T == S \cup {j \in DOMAIN input : \E i \in S : Adjacent(i, j)}
    IN  IF T = S THEN S ELSE Chained(T)

\* C24: for merging radii smaller than the axis sizes, at the end of the
\* labelling pass two candidate pixels carry the same provisional label if
\* and only if a chain of adjacent candidate pixels joins them; the
\* partition is that of the chains, whatever pixel of a component the scan
\* reaches first
C24_ComponentsAreChains ==
    (LabellingEnds /\ RadiiInsideCube) =>
        \A i \in DOMAIN input :
            /\ i \in DOMAIN prov.data
            /\ \A j \in DOMAIN input :
                   prov.data[i] = prov.data[j] <=> j \in Chained({i})

\* on the plane, with radii 2 and 1: two candidate pixels next to each
\* other in x are skipped and end up in different components, two pixels
\* two apart share one
C24_Witness ==
    /\ LabellingDone
    /\ RadiiInsideCube
    /\ radius.x = 2
    /\ radius.y = 1
    /\ \E i, j \in DOMAIN input :
           /\ CoordY(i) = CoordY(j)
           /\ CoordX(j) = CoordX(i) + 1
           /\ prov.data[i] # prov.data[j]
    /\ \E i, j \in DOMAIN input :
           /\ CoordX(j) = CoordX(i) + 2
           /\ prov.data[i] = prov.data[j]

\* C25: provisional labels are never reused: no label is handed out to two
\* sources, and once more sources are found than the counter has values
\* the linker stops with the error 'Too many sources for 32-bit dynamic
\* range of mask' instead of going back to a label already handed out
C25_LabelsNeverReused ==
    seeds # NULL =>
        /\ ~seeds.reused
        /\ (seeds.high = Int32Max /\ seeds.pc = "link") => seeds.label <= 0

\* the number of pixels of the mask d that carry the label l
PixelCount(d, l) == Cardinality({i \in DOMAIN d : d[i] = l})

\* the table lp counts, for every label from 2 on, the pixels of the mask d
\* that carry it
CountsAgree(d, lp) ==
    \A l \in 2..(Len(lp) - 1) : lp[l + 1].n_pix = PixelCount(d, l)

\* C26: the labelling pass changes every pixel equal to 1 to a provisional
\* label exactly once, together with exactly one LinkerPar_push or
\* LinkerPar_update: during the pass and after it the recorded pixel count
\* of every label from 2 on is the number of pixels that carry it, and
\* after the pass no pixel equals 1
C26_EveryCandidateLabelledOnce ==
    /\ pc \in {"link", "mark"} => CountsAgree(data, lpar)
    /\ LabellingDone =>
           /\ CountsAgree(prov.data, prov.lpar)
           /\ DOMAIN prov.data = DOMAIN input
           /\ \A i \in DOMAIN input : prov.data[i] >= 2

\* the same for merging radii smaller than the axis sizes
C26_InsideCube ==
    RadiiInsideCube => C26_EveryCandidateLabelledOnce

\* the candidate pixels of the mask that carry the label of the source
\* being labelled
Joined == {i \in DOMAIN input : Get(data, i) = label}

\* the candidate pixels of the mask that are still 1
Waiting == {i \in DOMAIN input : Get(data, i) = 1}

\* C27: the calls of mark_neighbours that are pending while a source is
\* labelled never outnumber the candidate pixels of that source (those
\* that carry its label and those that can still join it)
C27_PendingBounded ==
    pc = "mark" => Len(stack) <= Cardinality(Joined \cup Waiting)

\* for merging radii smaller than the axis sizes every pending call belongs
\* to a candidate pixel that carries the label
C27_InsideCube ==
    (pc = "mark" /\ RadiiInsideCube) => Len(stack) <= Cardinality(Joined)

-----------------------------------------------------------------------------
(* Properties of the pipeline.                                             *)

\* the stages of main that come after the creation of the catalogue
LaterStages == {"parameterise", "moments", "cubelets"}

\* the positions in the log at which stage s ran
StageRuns(s) == {i \in DOMAIN run.log : run.log[i].stage = s}

\* C23: when linking leaves zero sources the run ends cleanly: it reports
\* that no sources are left, no later stage has run and nothing has been
\* written after the linker, and the objects main holds (data cube, mask
\* cube, region, parameters, paths, catalogue) have been released
C23_ZeroSourcesCleanExit ==
    (run # NULL /\ run.pc = "catalog" /\ run.exit # "") =>
        /\ run.sources = 0
        /\ run.message = "No sources left after linking. Terminating pipeline."
        /\ \A s \in LaterStages : StageRuns(s) = {}
        /\ run.files \cap {"catalog", "mask", "moments", "cubelets"} = {}
        /\ run.owned = {}

\* C28: whenever the linker is invoked a mask cube exists, whatever the
\* settings
C28_LinkerHasMask ==
    run # NULL =>
        \A i \in StageRuns("linker") : run.log[i].mask # <<"NULL">>

\* the data cube after the division by the weights and the noise scaling
\* that the settings ask for
Filtered ==
    (IF run.set.use_weights THEN <<"weights">> ELSE << >>) \o
    (IF run.set.use_noise_scaling THEN <<"noise">> ELSE << >>)

\* C29: the S+C finder runs on the cube after weights division and noise
\* scaling; the data cube is reloaded after the finder and before the
\* linker exactly when weights or noise scaling were applied; the linker,
\* the parameterisation, the moment maps and the cubelets see the
\* unmodified input data
C29_StageOrder ==
    run # NULL =>
        /\ \A i \in StageRuns("scfind") :
               /\ run.log[i].data = Filtered
               /\ \A j \in StageRuns("weights") \cup StageRuns("noise") :
                      j < i
        /\ \A i \in StageRuns("reload") :
               /\ Filtered # << >>
               /\ \A j \in StageRuns("scfind") : j < i
               /\ \A j \in StageRuns("linker") : i < j
        /\ \A i \in StageRuns("linker") :
               Filtered # << >> => StageRuns("reload") # {}
        /\ \A s \in {"linker"} \cup LaterStages :
               \A i \in StageRuns(s) : run.log[i].data = << >>

\* a finished run with weights and noise scaling, the finder, the reload
\* and every later stage
C29_Witness ==
    /\ run # NULL
    /\ run.exit = "return"
    /\ run.set.use_weights
    /\ run.set.use_noise_scaling
    /\ StageRuns("scfind") # {}
    /\ StageRuns("reload") # {}
    /\ \A s \in {"linker"} \cup LaterStages : StageRuns(s) # {}

-----------------------------------------------------------------------------
(* Properties of the Flagger class.                                        *)

\* the number of parameters of the shapes PIXEL, CHANNEL, REGION, CIRCLE
RequiredParameters == <<2, 1, 6, 3>>

\* C30: the Flagger keeps its instructions in insertion order. After n
\* calls of Flagger_add that returned, Flagger_size returns n and
\* Flagger_get(i) for i < n returns the shape of call i + 1 with its 2 (PIXEL),
\* 1 (CHANNEL), 6 (REGION) or 3 (CIRCLE) parameters as passed; a later add
\* changes no earlier entry; Flagger_add with a shape that is not
\* recognised ends with ERR_USER_INPUT, Flagger_get with an index not below
\* the size with ERR_INDEX_RANGE, and both leave the instructions as they
\* were
C30_InsertionOrder ==
    flagger # NULL =>
        LET self == flagger.self
            n == Len(flagger.added)
        IN  /\ self.size = n
            /\ Len(self.shape) = n
            /\ Len(self.parameters) = n
            /\ \A i \in 1..n :
                   /\ self.shape[i] = flagger.added[i][1]
                   /\ self.parameters[i] = flagger.added[i][2]
                   /\ Len(self.parameters[i]) =
                          RequiredParameters[self.shape[i] + 1]
            /\ flagger.call[1] = "Flagger_size" => flagger.result = <<n>>
            /\ flagger.call[1] = "Flagger_get" =>
                   IF flagger.call[2] < n
                   THEN /\ flagger.error = ""
                        /\ flagger.result = flagger.added[flagger.call[2] + 1]
                   ELSE flagger.error = "ERR_INDEX_RANGE"
            /\ flagger.call[1] = "Flagger_add" =>
                   IF flagger.call[2] \in 0..3
                   THEN /\ flagger.error = ""
                        /\ flagger.added[n] = <<flagger.call[2], flagger.call[3]>>
                   ELSE flagger.error = "ERR_USER_INPUT"
            /\ flagger.call[1] \in {"Flagger_new", "Flagger_size"} =>
                   flagger.error = ""

\* three instructions of different shapes, a REGION first, and Flagger_get
\* returns the first one
C30_Witness ==
    /\ flagger # NULL
    /\ flagger.error = ""
    /\ Len(flagger.added) = 3
    /\ flagger.added[1][1] = 2
    /\ flagger.added[2][1] = 0
    /\ flagger.added[3][1] = 3
    /\ flagger.call = <<"Flagger_get", 0>>
    /\ flagger.result = <<2, <<11, 12, 13, 14, 15, 16>> >>

\* a failed Flagger_get and a failed Flagger_add on a Flagger that holds
\* instructions
C30_Failures ==
    /\ flagger # NULL
    /\ flagger.error # ""
    /\ Len(flagger.added) = 2

====
